---------------------------- MODULE Spec2Model ----------------------------
(***************************************************************************)
(* A model of the Forth interpreter: the bounded operand stack             *)
(* (stack/core.rs), the calculator, the boolean operations, the word       *)
(* manager (forth/word.rs) with its definition and execution of words, and *)
(* the top-level loop (forth/interpreter.rs, handler/                      *)
(* instructions_handler.rs).  Indices are the 0-based indices of the Rust  *)
(* code; a TLA+ sequence holding a Vec is read at index + 1.               *)
(***************************************************************************)
EXTENDS Integers, Sequences, FiniteSets, TLC

(***************************************************************************)
(* Bounds of the model.                                                    *)
(***************************************************************************)
\* Largest byte capacity handed to Stack::new (the one of every session).
MaxBytes == 5
\* Longest straight-line piece (prefix, branch, tail) of a generated body.
MaxPiece == 1
\* nesting_level above which no further line is submitted.
MaxNesting == 2
\* Most definitions a session makes.
MaxDefs == 3
\* Most executed instructions the history of an invocation records.
TraceCap == 16

(***************************************************************************)
(* Program constants.                                                      *)
(***************************************************************************)
DEFAULT_CAPACITY == 128
FORTH_TRUE == -1
FORTH_FALSE == 0

\* Option: None is the empty sequence, Some(x) the one-element sequence.
None == <<>>
Some(x) == <<x>>

\* The values pushed by the lines of the model: zero, the canonical TRUE
\* and a non-canonical non-zero value.
Values == {0, -1, 2}

(***************************************************************************)
(* i16 arithmetic.                                                         *)
(***************************************************************************)
I16Min == -32768
I16Max == 32767
InI16(x) == I16Min <= x /\ x <= I16Max
Wrap16(x) == ((x + 32768) % 65536) - 32768
Abs(x) == IF x < 0 THEN -x ELSE x
\* Rust's integer division truncates toward zero.
TruncDiv(a, b) ==
    IF (a < 0) = (b < 0) THEN Abs(a) \div Abs(b) ELSE -(Abs(a) \div Abs(b))

(***************************************************************************)
(* Stack (stack/core.rs).  A stack is [capacity, size, data]; an operation *)
(* yields [res, st, val].                                                  *)
(***************************************************************************)
Stack_new(bytes) ==
    LET capacity == IF bytes = None THEN DEFAULT_CAPACITY ELSE bytes[1]
        element_size == 2
    IN  [capacity |-> capacity \div element_size, size |-> 0, data |-> <<>>]

is_empty(st) == st.size = 0

push(st, element) ==
    LET is_full == st.size > st.capacity
    IN  IF is_full
        THEN [res |-> "Overflow", st |-> st, val |-> 0]
        ELSE [res |-> "Ok",
              st |-> [st EXCEPT !.data = Append(@, element), !.size = @ + 1],
              val |-> 0]

drop(st) ==
    IF is_empty(st) \/ st.data = <<>>
    THEN [res |-> "Underflow", st |-> st, val |-> 0]
    ELSE [res |-> "Ok",
          st |-> [st EXCEPT !.data = SubSeq(@, 1, Len(@) - 1), !.size = @ - 1],
          val |-> st.data[Len(st.data)]]

top(st) ==
    IF st.data = <<>>
    THEN [res |-> "Underflow", st |-> st, val |-> 0]
    ELSE [res |-> "Ok", st |-> st, val |-> st.data[Len(st.data)]]

dup(st) ==
    IF st.size >= st.capacity
    THEN [res |-> "Overflow", st |-> st, val |-> 0]
    ELSE IF top(st).res = "Ok"
         THEN [res |-> "Ok", st |-> push(st, top(st).val).st, val |-> 0]
         ELSE [res |-> "Underflow", st |-> st, val |-> 0]

swap(st) ==
    IF st.size < 2
    THEN [res |-> "Underflow", st |-> st, val |-> 0]
    ELSE LET d1 == drop(st)
             d2 == drop(d1.st)
             p1 == push(d2.st, d2.val)
             p2 == push(p1.st, d1.val)
         IN  IF d1.res # "Ok" THEN [res |-> d1.res, st |-> d1.st, val |-> 0]
             ELSE IF d2.res # "Ok" THEN [res |-> d2.res, st |-> d2.st, val |-> 0]
             ELSE [res |-> "Ok", st |-> p2.st, val |-> 0]

over(st) ==
    IF st.size < 2
    THEN [res |-> "Underflow", st |-> st, val |-> 0]
    ELSE IF st.size >= st.capacity
    THEN [res |-> "Overflow", st |-> st, val |-> 0]
    ELSE LET d1 == drop(st)
             t  == top(d1.st)
             p1 == push(d1.st, d1.val)
             p2 == push(p1.st, t.val)
         IN  IF d1.res # "Ok" THEN [res |-> d1.res, st |-> d1.st, val |-> 0]
             ELSE IF t.res # "Ok" THEN [res |-> t.res, st |-> d1.st, val |-> 0]
             ELSE [res |-> "Ok", st |-> p2.st, val |-> 0]

\* A plausible slip: tops is not reversed before it is pushed back.
rot_unreversed(st) ==
    IF st.size < 3
    THEN [res |-> "Underflow", st |-> st, val |-> 0]
    ELSE LET d1 == drop(st)
             d2 == drop(d1.st)
             d3 == drop(d2.st)
             p1 == push(d3.st, d1.val)
             p2 == push(p1.st, d2.val)
             p3 == push(p2.st, d3.val)
         IN  IF d3.res # "Ok" THEN [res |-> d3.res, st |-> d3.st, val |-> 0]
             ELSE [res |-> "Ok", st |-> p3.st, val |-> 0]

rot(st) ==
    IF st.size < 3
    THEN [res |-> "Underflow", st |-> st, val |-> 0]
    ELSE LET d1 == drop(st)
             d2 == drop(d1.st)
             \* tops after the reverse: the lower of the two first
             d3 == drop(d2.st)
             p1 == push(d3.st, d2.val)
             p2 == push(p1.st, d1.val)
             p3 == push(p2.st, d3.val)
         IN  IF d3.res # "Ok" THEN [res |-> d3.res, st |-> d3.st, val |-> 0]
             ELSE [res |-> "Ok", st |-> p3.st, val |-> 0]

\* stack/stack_operations.rs
execute_stack_operation(st, operation) ==
    CASE operation = "Dup"  -> dup(st)
      [] operation = "Swap" -> swap(st)
      [] operation = "Over" -> over(st)
      [] operation = "Rot"  -> rot(st)
      [] operation = "Drop" -> [drop(st) EXCEPT !.val = 0]

(***************************************************************************)
(* Calculator (calculator/calculator.rs).  The result is a set of          *)
(* outcomes: an i16 overflow of + - * wraps in a release build and aborts  *)
(* in a debug build; MIN / -1 aborts in both.                              *)
(***************************************************************************)
Arith(x) ==
    IF InI16(x) THEN {[res |-> "Ok", val |-> x]}
    ELSE {[res |-> "Ok", val |-> Wrap16(x)], [res |-> "Abort", val |-> 0]}

divide(n1, n2) ==
    IF n2 = 0 THEN {[res |-> "DivisionByZero", val |-> 0]}
    ELSE IF n1 = I16Min /\ n2 = -1 THEN {[res |-> "Abort", val |-> 0]}
    ELSE {[res |-> "Ok", val |-> TruncDiv(n1, n2)]}

calculate(n1, n2, operation) ==
    CASE operation = "+" -> Arith(n1 + n2)
      [] operation = "-" -> Arith(n1 - n2)
      [] operation = "*" -> Arith(n1 * n2)
      [] operation = "/" -> divide(n1, n2)
      [] OTHER -> {[res |-> "UndefinedOperation", val |-> 0]}

(***************************************************************************)
(* BooleanOperationManager (forth/boolean_operations.rs).                  *)
(***************************************************************************)
is_not(operation) == operation = "Not"

\* A plausible slip: every non-zero operand counts as true.
execute_boolean_nonzero(operation, op1, op2) ==
    LET o2 == IF op2 = None THEN 0 ELSE op2[1]
    IN  CASE operation = "And" ->
               IF op1 # FORTH_FALSE /\ o2 # FORTH_FALSE THEN FORTH_TRUE ELSE FORTH_FALSE
          [] operation = "Or" ->
               IF op1 # FORTH_FALSE \/ o2 # FORTH_FALSE THEN FORTH_TRUE ELSE FORTH_FALSE
          [] operation = "Not" ->
               IF op1 = 0 THEN FORTH_TRUE ELSE FORTH_FALSE

execute_boolean_operation(operation, op1, op2) ==
    LET o2 == IF op2 = None THEN 0 ELSE op2[1]
    IN  CASE operation = "And" ->
               IF op1 = FORTH_TRUE /\ o2 = FORTH_TRUE THEN FORTH_TRUE ELSE FORTH_FALSE
          [] operation = "Or" ->
               IF op1 = FORTH_TRUE \/ o2 = FORTH_TRUE THEN FORTH_TRUE ELSE FORTH_FALSE
          [] operation = "Not" ->
               IF op1 = 0 THEN FORTH_TRUE ELSE FORTH_FALSE

execute_logical_operations(operation, op1, op2) ==
    CASE operation = "LessThan"    -> IF op1 < op2 THEN FORTH_TRUE ELSE FORTH_FALSE
      [] operation = "GreaterThan" -> IF op1 > op2 THEN FORTH_TRUE ELSE FORTH_FALSE
      [] operation = "Equal"       -> IF op1 = op2 THEN FORTH_TRUE ELSE FORTH_FALSE

(***************************************************************************)
(* Instructions (forth/intruction.rs, forth/intructions.rs,                *)
(* forth/word_data.rs).  Every instruction is a record [t, v, s, n]: the   *)
(* variant, and its integer, string or name payload.  A name, and the text *)
(* of a quoted literal, is a sequence of characters.                       *)
(***************************************************************************)
Instr(t, v, s, n) == [t |-> t, v |-> v, s |-> s, n |-> n]
Number(v)           == Instr("Number", v, "", <<>>)
Operator(s)         == Instr("Operator", 0, s, <<>>)
StackWord(op)       == Instr("StackWord", 0, op, <<>>)
StartDefinition     == Instr("StartDefinition", 0, "", <<>>)
EndDefinition       == Instr("EndDefinition", 0, "", <<>>)
Name(n)             == Instr("Name", 0, "", n)
If                  == Instr("If", 0, "", <<>>)
Else                == Instr("Else", 0, "", <<>>)
Then                == Instr("Then", 0, "", <<>>)
BooleanOperation(o) == Instr("BooleanOperation", 0, o, <<>>)
LogicalOperation(o) == Instr("LogicalOperation", 0, o, <<>>)
OutputDot           == Instr("OutputDot", 0, "", <<>>)
OutpuEmit           == Instr("OutpuEmit", 0, "", <<>>)
OutputCR            == Instr("OutputCR", 0, "", <<>>)
\* Output(OutputInstruction::DotQuote(s)), the literal the handler writes
DotQuote(s)         == Instr("DotQuote", 0, "", s)
\* the stand-alone variant OutputDotQuote(s), the one the parser pushes:
\* written by process_data and in a body, left alone by the handler
OutputDotQuote(s)   == Instr("OutputDotQuote", 0, "", s)
DefinitionIndex(i)  == Instr("DefinitionIndex", i, "", <<>>)

\* What a writer receives: [k, v, s], the kind of output, the number
\* formatted and the text, a sequence of characters.
Written(k, v, s) == [k |-> k, v |-> v, s |-> s]

(***************************************************************************)
(* ExecutionHandler (handler/instructions_handler.rs).  An outcome is      *)
(* [res, st, out]: the result, the stack and the text written so far.      *)
(***************************************************************************)
Outcome(res, st, out) == [res |-> res, st |-> st, out |-> out]

handle_push_element(st, out, element) ==
    LET p == push(st, element) IN {Outcome(p.res, p.st, out)}

\* A plausible slip: the operands are put back when the calculation fails.
handle_calculate_restoring(st, out, operation) ==
    LET d2 == drop(st)
        d1 == drop(d2.st)
    IN  IF d2.res # "Ok" THEN {Outcome(d2.res, d2.st, out)}
        ELSE IF d1.res # "Ok" THEN {Outcome(d1.res, d1.st, out)}
        ELSE { IF c.res # "Ok" THEN Outcome(c.res, st, out)
               ELSE LET p == push(d1.st, c.val) IN Outcome(p.res, p.st, out)
               : c \in calculate(d1.val, d2.val, operation) }

handle_calculate(st, out, operation) ==
    LET d2 == drop(st)
        d1 == drop(d2.st)
    IN  IF d2.res # "Ok" THEN {Outcome(d2.res, d2.st, out)}
        ELSE IF d1.res # "Ok" THEN {Outcome(d1.res, d1.st, out)}
        ELSE { IF c.res # "Ok" THEN Outcome(c.res, d1.st, out)
               ELSE LET p == push(d1.st, c.val) IN Outcome(p.res, p.st, out)
               : c \in calculate(d1.val, d2.val, operation) }

handle_boolean_operation(st, out, operation) ==
    LET d1 == drop(st)
        d2 == drop(d1.st)
    IN  IF d1.res # "Ok" THEN {Outcome(d1.res, d1.st, out)}
        ELSE IF is_not(operation)
        THEN LET p == push(d1.st, execute_boolean_operation(operation, d1.val, None))
             IN  {Outcome(p.res, p.st, out)}
        ELSE IF d2.res # "Ok" THEN {Outcome(d2.res, d2.st, out)}
        ELSE LET p == push(d2.st, execute_boolean_operation(operation, d1.val, Some(d2.val)))
             IN  {Outcome(p.res, p.st, out)}

handle_logical_operation(st, out, operation) ==
    LET d2 == drop(st)
        d1 == drop(d2.st)
    IN  IF d2.res # "Ok" THEN {Outcome(d2.res, d2.st, out)}
        ELSE IF d1.res # "Ok" THEN {Outcome(d1.res, d1.st, out)}
        ELSE LET p == push(d1.st, execute_logical_operations(operation, d1.val, d2.val))
             IN  {Outcome(p.res, p.st, out)}

\* A plausible slip: the Underflow of the drop is returned with ?.
handle_output_dot_strict(st, w, out) ==
    LET d == drop(st)
    IN  IF d.res = "Ok"
        THEN {Outcome("Ok", d.st, IF w THEN Append(out, Written("Dot", d.val, << >>)) ELSE out)}
        ELSE {Outcome(d.res, d.st, out)}

handle_output_dot(st, w, out) ==
    LET d == drop(st)
    IN  IF d.res = "Ok"
        THEN {Outcome("Ok", d.st, IF w THEN Append(out, Written("Dot", d.val, << >>)) ELSE out)}
        ELSE {Outcome("Ok", d.st, out)}

handle_output_cr(st, w, out) ==
    {Outcome("Ok", st, IF w THEN Append(out, Written("CR", 0, << >>)) ELSE out)}

handle_output_emit(st, w, out) ==
    LET d == drop(st)
    IN  IF d.res = "Ok" /\ 0 <= d.val /\ d.val <= 255 /\ w
        THEN {Outcome("Ok", d.st, Append(out, Written("Emit", d.val, << >>)))}
        ELSE {Outcome("Ok", d.st, out)}

\* write!(writer, "{} ", string)
handle_output_dot_quote(st, w, out, string) ==
    {Outcome("Ok", st,
             IF w THEN Append(out, Written("DotQuote", 0, string \o <<" ">>)) ELSE out)}

\* A plausible slip: a top-level If consumes the condition, as in a body.
handle_generation_popping(st, w, out, instruction) ==
    CASE instruction.t = "OutputDot"      -> handle_output_dot(st, w, out)
      [] instruction.t = "OutputCR"       -> handle_output_cr(st, w, out)
      [] instruction.t = "OutpuEmit"      -> handle_output_emit(st, w, out)
      [] instruction.t = "DotQuote" -> handle_output_dot_quote(st, w, out, instruction.n)
      [] instruction.t = "If" -> LET d == drop(st) IN {Outcome(d.res, d.st, out)}
      [] OTHER -> {Outcome("Ok", st, out)}

handle_generation_output(st, w, out, instruction) ==
    CASE instruction.t = "OutputDot"      -> handle_output_dot(st, w, out)
      [] instruction.t = "OutputCR"       -> handle_output_cr(st, w, out)
      [] instruction.t = "OutpuEmit"      -> handle_output_emit(st, w, out)
      [] instruction.t = "DotQuote" -> handle_output_dot_quote(st, w, out, instruction.n)
      [] OTHER -> {Outcome("Ok", st, out)}

handle_instruction(st, w, out, instruction) ==
    CASE instruction.t = "Number"    -> handle_push_element(st, out, instruction.v)
      [] instruction.t = "Operator"  -> handle_calculate(st, out, instruction.s)
      [] instruction.t = "StackWord" ->
           LET r == execute_stack_operation(st, instruction.s)
           IN  {Outcome(r.res, r.st, out)}
      [] instruction.t = "BooleanOperation" ->
           handle_boolean_operation(st, out, instruction.s)
      [] instruction.t = "LogicalOperation" ->
           handle_logical_operation(st, out, instruction.s)
      [] OTHER -> handle_generation_output(st, w, out, instruction)

(***************************************************************************)
(* Forth (forth/forth.rs): process_data, which run and the integration     *)
(* tests call on what the parser gives.                                    *)
(***************************************************************************)
\* Forth::calculate: the result of the final push is discarded
forth_calculate(st, out, operator) ==
    LET operand2 == drop(st)
        operand1 == drop(operand2.st)
    IN  IF operand2.res # "Ok" THEN {Outcome(operand2.res, operand2.st, out)}
        ELSE IF operand1.res # "Ok" THEN {Outcome(operand1.res, operand1.st, out)}
        ELSE { IF c.res # "Ok" THEN Outcome(c.res, operand1.st, out)
               ELSE Outcome("Ok", push(operand1.st, c.val).st, out)
               : c \in calculate(operand1.val, operand2.val, operator) }

\* the arms of process_data other than StartDefinition and Name; a boolean
\* operation drops two operands whatever the operator
process_data_element(st, w, out, element) ==
    CASE element.t = "Number" ->
           LET p == push(st, element.v) IN {Outcome(p.res, p.st, out)}
      [] element.t = "Operator" -> forth_calculate(st, out, element.s)
      [] element.t = "StackWord" ->
           LET r == execute_stack_operation(st, element.s)
           IN  {Outcome(r.res, r.st, out)}
      [] element.t = "BooleanOperation" ->
           LET operand2 == drop(st)
               operand1 == drop(operand2.st)
           IN  IF operand2.res # "Ok" THEN {Outcome(operand2.res, operand2.st, out)}
               ELSE IF operand1.res # "Ok" THEN {Outcome(operand1.res, operand1.st, out)}
               ELSE LET p == push(operand1.st,
                             execute_boolean_operation(element.s, operand1.val,
                                                       Some(operand2.val)))
                    IN  {Outcome(p.res, p.st, out)}
      [] element.t = "LogicalOperation" ->
           LET operand2 == drop(st)
               operand1 == drop(operand2.st)
           IN  IF operand2.res # "Ok" THEN {Outcome(operand2.res, operand2.st, out)}
               ELSE IF operand1.res # "Ok" THEN {Outcome(operand1.res, operand1.st, out)}
               ELSE LET p == push(operand1.st,
                             execute_logical_operations(element.s, operand1.val,
                                                        operand2.val))
                    IN  {Outcome(p.res, p.st, out)}
      [] element.t = "OutputDot" -> handle_output_dot(st, w, out)
      [] element.t = "OutputCR" -> handle_output_cr(st, w, out)
      [] element.t = "OutpuEmit" -> handle_output_emit(st, w, out)
      [] element.t = "OutputDotQuote" ->
           handle_output_dot_quote(st, w, out, element.n)
      [] OTHER -> {Outcome("Ok", st, out)}

(***************************************************************************)
(* WordManager (forth/word.rs): the dictionary.  words maps a name to an   *)
(* index of definitions, the append-only vector of compiled bodies.        *)
(***************************************************************************)
Digits == {"0", "1", "2", "3", "4", "5", "6", "7", "8", "9"}
Letters == {"a", "b", "c", "d", "e", "f", "g", "h", "i", "j", "k", "l", "m",
            "n", "o", "p", "q", "r", "s", "t", "u", "v", "w", "x", "y", "z",
            "A", "B", "C", "D", "E", "F", "G", "H", "I", "J", "K", "L", "M",
            "N", "O", "P", "Q", "R", "S", "T", "U", "V", "W", "X", "Y", "Z"}
\* U+0060, which cannot be written in a string here
GraveAccent == "<U+0060>"

\* char::is_ascii_punctuation: the 32 characters
AsciiPunctuation == {"!", "\"", "#", "$", "%", "&", "'", "(", ")", "*", "+",
                     ",", "-", ".", "/", ":", ";", "<", "=", ">", "?", "@",
                     "[", "\\", "]", "^", "_", GraveAccent, "{", "|", "}", "~"}

DigitValue(c) ==
    CASE c = "0" -> 0 [] c = "1" -> 1 [] c = "2" -> 2 [] c = "3" -> 3
      [] c = "4" -> 4 [] c = "5" -> 5 [] c = "6" -> 6 [] c = "7" -> 7
      [] c = "8" -> 8 [] c = "9" -> 9

RECURSIVE DecimalValue(_)
DecimalValue(cs) ==
    IF cs = <<>> THEN 0
    ELSE 10 * DecimalValue(SubSeq(cs, 1, Len(cs) - 1)) + DigitValue(cs[Len(cs)])

\* str::parse::<i16>: an optional sign, at least one digit, a value in range
parses_as_i16(name) ==
    LET signed == name # <<>> /\ name[1] \in {"+", "-"}
        digits == IF signed THEN Tail(name) ELSE name
    IN  /\ digits # <<>>
        /\ \A k \in 1..Len(digits) : digits[k] \in Digits
        /\ LET v == DecimalValue(digits)
           IN  InI16(IF signed /\ name[1] = "-" THEN -v ELSE v)

is_valid_word_name(name) ==
    IF parses_as_i16(name) THEN FALSE
    ELSE \A k \in 1..Len(name) :
            name[k] \in Letters \cup Digits \cup AsciiPunctuation

is_word_defined(words, name) == name \in DOMAIN words

find_end_definition(body) ==
    IF \E k \in 1..Len(body) : body[k].t = "EndDefinition"
    THEN Some(CHOOSE k \in 0..(Len(body) - 1) :
                /\ body[k + 1].t = "EndDefinition"
                /\ \A j \in 0..(k - 1) : body[j + 1].t # "EndDefinition")
    ELSE None

\* A plausible slip: the reference keeps the name and is resolved when run.
convert_by_name(words, instruction) ==
    IF instruction.t \in {"StartDefinition", "EndDefinition", "DefinitionIndex"}
    THEN [res |-> "InvalidWord", items |-> <<>>]
    ELSE [res |-> "Ok", items |-> <<instruction>>]

convert_to_word_defintion(words, instruction) ==
    CASE instruction.t \in {"Number", "Operator", "StackWord", "If", "Then", "Else",
                            "BooleanOperation", "LogicalOperation", "OutputDot",
                            "OutpuEmit", "OutputCR", "DotQuote", "OutputDotQuote"} ->
           [res |-> "Ok", items |-> <<instruction>>]
      [] instruction.t = "Name" ->
           IF is_word_defined(words, instruction.n)
           THEN [res |-> "Ok", items |-> <<DefinitionIndex(words[instruction.n])>>]
           ELSE [res |-> "Ok", items |-> <<>>]
      [] OTHER -> [res |-> "InvalidWord", items |-> <<>>]

RECURSIVE Concat(_)
Concat(converted) ==
    IF converted = << >> THEN << >>
    ELSE Head(converted).items \o Concat(Tail(converted))

\* the loop of define_new_word over the instructions of the body: the first
\* error is returned, else the converted instructions in order
compile_body(words, word_definition) ==
    LET converted == [k \in 1..Len(word_definition) |->
                        convert_to_word_defintion(words, word_definition[k])]
        failed == {k \in 1..Len(word_definition) : converted[k].res # "Ok"}
    IN  IF failed # {}
        THEN [res |-> converted[CHOOSE k \in failed : \A j \in failed : k <= j].res,
              items |-> << >>]
        ELSE [res |-> "Ok", items |-> Concat(converted)]

\* A plausible slip: a name already defined has its body replaced in place.
define_new_word_in_place(words, definitions, name, body) ==
    LET unchanged == [res |-> "InvalidWord", words |-> words, definitions |-> definitions]
        end_index == find_end_definition(body)
    IN  IF ~is_valid_word_name(name) THEN unchanged
        ELSE IF end_index = None THEN unchanged
        ELSE LET c == compile_body(words, SubSeq(body, 1, end_index[1]))
                 index == Len(definitions)
             IN  IF c.res # "Ok" THEN unchanged
                 ELSE IF is_word_defined(words, name)
                 THEN [res |-> "Ok", words |-> words,
                       definitions |-> [definitions EXCEPT ![words[name] + 1] = c.items]]
                 ELSE [res |-> "Ok",
                       words |-> [n \in DOMAIN words \cup {name} |->
                                    IF n = name THEN index ELSE words[n]],
                       definitions |-> Append(definitions, c.items)]

\* A plausible slip: the name is entered in the map before the body has
\* been checked, so that a failure leaves it pointing at no body.
define_new_word_eager(words, definitions, name, body) ==
    LET index == Len(definitions)
        entered == [n \in DOMAIN words \cup {name} |->
                      IF n = name THEN index ELSE words[n]]
        end_index == find_end_definition(body)
    IN  IF ~is_valid_word_name(name)
        THEN [res |-> "InvalidWord", words |-> words, definitions |-> definitions]
        ELSE IF end_index = None
        THEN [res |-> "InvalidWord", words |-> entered, definitions |-> definitions]
        ELSE LET c == compile_body(words, SubSeq(body, 1, end_index[1]))
             IN  IF c.res # "Ok"
                 THEN [res |-> "InvalidWord", words |-> entered,
                       definitions |-> definitions]
                 ELSE [res |-> "Ok", words |-> entered,
                       definitions |-> Append(definitions, c.items)]

\* yields [res, words, definitions]
define_new_word(words, definitions, name, body) ==
    LET unchanged == [res |-> "InvalidWord", words |-> words, definitions |-> definitions]
        end_index == find_end_definition(body)
    IN  IF ~is_valid_word_name(name) THEN unchanged
        ELSE IF end_index = None THEN unchanged
        ELSE LET c == compile_body(words, SubSeq(body, 1, end_index[1]))
                 index == Len(definitions)
             IN  IF c.res # "Ok" THEN unchanged
                 ELSE [res |-> "Ok",
                       words |-> [n \in DOMAIN words \cup {name} |->
                                    IF n = name THEN index ELSE words[n]],
                       definitions |-> Append(definitions, c.items)]

(***************************************************************************)
(* WordManager: the execution of a body.                                   *)
(***************************************************************************)
RECURSIVE scan_index(_, _, _, _)
scan_index(instructions, pos, nesting, target) ==
    IF pos >= Len(instructions) THEN None
    ELSE LET t == instructions[pos + 1].t
         IN  CASE t = "If" -> scan_index(instructions, pos + 1, nesting + 1, target)
               [] t = "Then" ->
                    IF nesting = 0 /\ target = "Then" THEN Some(pos)
                    ELSE scan_index(instructions, pos + 1, nesting - 1, target)
               [] t = "Else" ->
                    IF nesting = 0 /\ target = "Else" THEN Some(pos)
                    ELSE scan_index(instructions, pos + 1, nesting, target)
               [] OTHER -> scan_index(instructions, pos + 1, nesting, target)

\* A plausible slip: the first marker found, whatever its nesting depth.
RECURSIVE find_first_marker(_, _, _, _)
find_first_marker(definitions, def_index, start, target) ==
    IF def_index >= Len(definitions) THEN None
    ELSE IF start >= Len(definitions[def_index + 1]) THEN None
    ELSE IF definitions[def_index + 1][start + 1].t = target THEN Some(start)
    ELSE find_first_marker(definitions, def_index, start + 1, target)

find_index_instruction(definitions, def_index, start, target) ==
    IF def_index >= Len(definitions) THEN None
    ELSE scan_index(definitions[def_index + 1], start, 0, target)

\* A plausible slip: only the canonical TRUE takes the then-branch.
is_canonical_true(condition) == condition = FORTH_TRUE

\* word.rs:333, the test of the condition popped by If
is_truthy(condition) == condition = FORTH_TRUE \/ condition # FORTH_FALSE

\* The If arm.  Yields [res, st, nesting_level, next, child]: next is the
\* index the loop continues at once the arm is done (after its i += 1) and
\* child the index the recursive execute_instruction starts at, if any.
execute_if(definitions, def_index, i, st, nesting_level) ==
    LET then_index == find_index_instruction(definitions, def_index, i + 1, "Then")
        else_index == find_index_instruction(definitions, def_index, i + 1, "Else")
        condition == drop(st)
    IN  IF condition.res # "Ok"
        THEN [res |-> condition.res, st |-> condition.st,
              nesting_level |-> nesting_level, next |-> i, child |-> None]
        ELSE IF then_index # None
        THEN [res |-> "Ok", st |-> condition.st,
              nesting_level |-> nesting_level + 1,
              next |-> then_index[1] + 1,
              child |-> IF is_truthy(condition.val) THEN Some(i + 1)
                        ELSE IF else_index # None THEN Some(1 + else_index[1])
                        ELSE None]
        ELSE [res |-> "Ok", st |-> condition.st,
              nesting_level |-> nesting_level, next |-> i + 1, child |-> None]

\* The Else arm: [nesting_level, break]
execute_else(nesting_level) ==
    [nesting_level |-> nesting_level, break |-> nesting_level > 0]

\* The Then arm: [nesting_level, break]
execute_then(nesting_level) ==
    LET n == IF nesting_level > 0 THEN nesting_level - 1 ELSE nesting_level
    IN  [nesting_level |-> n, break |-> n > 0]

\* The arms of execute_instruction that only touch the stack and the writer
\* (word.rs:224-310); w is the presence of a writer.
execute_data(st, w, out, instruction) ==
    CASE instruction.t = "Number" ->
           LET p == push(st, instruction.v) IN {Outcome(p.res, p.st, out)}
      [] instruction.t = "Operator" ->
           LET operand2 == drop(st)
               operand1 == drop(operand2.st)
           IN  IF operand2.res # "Ok" THEN {Outcome(operand2.res, operand2.st, out)}
               ELSE IF operand1.res # "Ok" THEN {Outcome(operand1.res, operand1.st, out)}
               ELSE { IF c.res # "Ok" THEN Outcome(c.res, operand1.st, out)
                      ELSE LET p == push(operand1.st, c.val) IN Outcome(p.res, p.st, out)
                      : c \in calculate(operand2.val, operand1.val, instruction.s) }
      [] instruction.t = "StackWord" ->
           LET r == execute_stack_operation(st, instruction.s)
           IN  {Outcome(r.res, r.st, out)}
      [] instruction.t = "BooleanOperation" ->
           handle_boolean_operation(st, out, instruction.s)
      [] instruction.t = "LogicalOperation" ->
           LET operand2 == drop(st)
               operand1 == drop(operand2.st)
           IN  IF operand2.res # "Ok" THEN {Outcome(operand2.res, operand2.st, out)}
               ELSE IF operand1.res # "Ok" THEN {Outcome(operand1.res, operand1.st, out)}
               ELSE LET p == push(operand1.st,
                             execute_logical_operations(instruction.s,
                                                        operand1.val, operand2.val))
                    IN  {Outcome(p.res, p.st, out)}
      [] instruction.t = "OutputDot" -> handle_output_dot(st, w, out)
      [] instruction.t = "OutputCR" -> handle_output_cr(st, w, out)
      [] instruction.t = "OutpuEmit" ->
           IF w THEN handle_output_emit(st, w, out) ELSE {Outcome("Ok", st, out)}
      [] instruction.t \in {"DotQuote", "OutputDotQuote"} ->
           handle_output_dot_quote(st, w, out, instruction.n)

(***************************************************************************)
(* Parser (forth/parser.rs).  A line and a token are sequences of          *)
(* characters; the characters of the model are ASCII.                      *)
(***************************************************************************)
UpperCase == <<"A", "B", "C", "D", "E", "F", "G", "H", "I", "J", "K", "L", "M",
               "N", "O", "P", "Q", "R", "S", "T", "U", "V", "W", "X", "Y", "Z">>
LowerCase == <<"a", "b", "c", "d", "e", "f", "g", "h", "i", "j", "k", "l", "m",
               "n", "o", "p", "q", "r", "s", "t", "u", "v", "w", "x", "y", "z">>

char_to_lowercase(c) ==
    IF \E j \in 1..Len(UpperCase) : UpperCase[j] = c
    THEN LowerCase[CHOOSE j \in 1..Len(UpperCase) : UpperCase[j] = c]
    ELSE c

\* str::to_lowercase
to_lowercase(str) == [k \in 1..Len(str) |-> char_to_lowercase(str[k])]

eq_ignore_ascii_case(a, b) == to_lowercase(a) = to_lowercase(b)

\* U+000B, which has no escape in a string here
VerticalTab == "<U+000B>"

\* char::is_whitespace on the ASCII characters (the characters of the model);
\* str::trim and str::lines use the same property
is_whitespace(c) == c \in {" ", "\t", "\n", VerticalTab, "\f", "\r"}

starts_with(str, prefix) ==
    Len(prefix) <= Len(str) /\ SubSeq(str, 1, Len(prefix)) = prefix

\* the index of the first double quote at or after i, or the length
RECURSIVE closing_quote(_, _)
closing_quote(chars, i) ==
    IF i < Len(chars) /\ chars[i + 1] # "\""
    THEN closing_quote(chars, i + 1)
    ELSE i

\* the loop of tokenize from index i, the current token starting at start
RECURSIVE tokenize_from(_, _, _, _)
tokenize_from(input, i, start, tokens) ==
    IF i >= Len(input)
    THEN IF start < Len(input)
         THEN Append(tokens, SubSeq(input, start + 1, Len(input)))
         ELSE tokens
    ELSE LET c == input[i + 1]
             flushed == IF start < i
                        THEN Append(tokens, SubSeq(input, start + 1, i))
                        ELSE tokens
         IN  IF c = "." /\ starts_with(SubSeq(input, i + 1, Len(input)),
                                       <<".", "\"", " ">>)
             THEN LET close == closing_quote(input, i + 2)
                  IN  IF close < Len(input)
                      THEN tokenize_from(input, close + 1, close + 1,
                                         Append(flushed, SubSeq(input, i + 1, close + 1)))
                      ELSE tokenize_from(input, close, close, flushed)
             ELSE IF is_whitespace(c)
             THEN tokenize_from(input, i + 1, i + 1, flushed)
             ELSE IF c \in {":", ";"}
             THEN tokenize_from(input, i + 1, i + 1, Append(flushed, <<c>>))
             ELSE tokenize_from(input, i + 1, start, tokens)

tokenize(input) == tokenize_from(input, 0, 0, << >>)

is_number(token) ==
    IF token = << >> THEN FALSE
    ELSE IF token[1] = "-"
    THEN Len(token) > 1 /\ \A k \in 2..Len(token) : token[k] \in Digits
    ELSE \A k \in 1..Len(token) : token[k] \in Digits

\* the value of token.parse::<i16>() when it succeeds
parsed_i16(token) ==
    IF token[1] = "-" THEN -DecimalValue(Tail(token))
    ELSE IF token[1] = "+" THEN DecimalValue(Tail(token))
    ELSE DecimalValue(token)

is_operator(token) == token \in {<<"+">>, <<"-">>, <<"*">>, <<"/">>}

parse_logical_operation(token) ==
    CASE token = <<"<">> -> Some(LogicalOperation("LessThan"))
      [] token = <<">">> -> Some(LogicalOperation("GreaterThan"))
      [] token = <<"=">> -> Some(LogicalOperation("Equal"))
      [] OTHER -> None

parse_boolean_operation(token) ==
    CASE eq_ignore_ascii_case(token, <<"a", "n", "d">>) -> Some(BooleanOperation("And"))
      [] eq_ignore_ascii_case(token, <<"o", "r">>) -> Some(BooleanOperation("Or"))
      [] eq_ignore_ascii_case(token, <<"n", "o", "t">>) -> Some(BooleanOperation("Not"))
      [] OTHER -> None

parse_stack_operation(token, words) ==
    IF is_word_defined(words, token) THEN Some(Name(token))
    ELSE CASE eq_ignore_ascii_case(token, <<"d", "u", "p">>) -> Some(StackWord("Dup"))
           [] eq_ignore_ascii_case(token, <<"d", "r", "o", "p">>) -> Some(StackWord("Drop"))
           [] eq_ignore_ascii_case(token, <<"s", "w", "a", "p">>) -> Some(StackWord("Swap"))
           [] eq_ignore_ascii_case(token, <<"o", "v", "e", "r">>) -> Some(StackWord("Over"))
           [] eq_ignore_ascii_case(token, <<"r", "o", "t">>) -> Some(StackWord("Rot"))
           [] OTHER -> None

parse_word(token, words) ==
    IF is_word_defined(words, token) THEN Some(Name(token))
    ELSE CASE eq_ignore_ascii_case(token, <<"i", "f">>) -> Some(If)
           [] eq_ignore_ascii_case(token, <<"e", "l", "s", "e">>) -> Some(Else)
           [] eq_ignore_ascii_case(token, <<"t", "h", "e", "n">>) -> Some(Then)
           [] OTHER -> Some(Name(to_lowercase(token)))

\* The arms shared by the two states of parse_token, from "." to the number:
\* the instructions to push, if one of them matches.  The slice
\* token[3..len - 1] of a quoted literal aborts when the token is shorter
\* than four characters.
parse_output_or_number(token) ==
    CASE token = <<".">> -> [res |-> "Ok", items |-> <<OutputDot>>]
      [] eq_ignore_ascii_case(token, <<"e", "m", "i", "t">>) ->
           [res |-> "Ok", items |-> <<OutpuEmit>>]
      [] eq_ignore_ascii_case(token, <<"c", "r">>) ->
           [res |-> "Ok", items |-> <<OutputCR>>]
      [] token[1] = "." /\ token[Len(token)] = "\"" ->
           IF Len(token) < 4 THEN [res |-> "Abort", items |-> << >>]
           ELSE [res |-> "Ok",
                 items |-> <<OutputDotQuote(SubSeq(token, 4, Len(token) - 1))>>]
      [] is_number(token) ->
           [res |-> "Ok",
            items |-> IF parses_as_i16(token) THEN <<Number(parsed_i16(token))>>
                      ELSE << >>]
      [] OTHER -> [res |-> "None", items |-> << >>]

\* parse_token: [res, instructions, state] from a token (never empty), the
\* instructions so far, the state and the dictionary
parse_token(token, instructions, state, words) ==
    LET common == parse_output_or_number(token)
        stack_op == parse_stack_operation(token, words)
        logical_op == parse_logical_operation(token)
        boolean_op == parse_boolean_operation(token)
        word == parse_word(token, words)
        pushed(items, st) ==
            [res |-> "Ok", instructions |-> instructions \o items, state |-> st]
    IN  CASE state = "OutsideDefinition" ->
               IF token = <<":">> THEN pushed(<<StartDefinition>>, "ParsingWordName")
               ELSE IF token = <<";">> THEN pushed(<<EndDefinition>>, state)
               ELSE IF common.res = "Abort"
               THEN [res |-> "Abort", instructions |-> instructions, state |-> state]
               ELSE IF common.res = "Ok" THEN pushed(common.items, state)
               ELSE IF is_operator(token)
               THEN IF is_word_defined(words, token)
                    THEN pushed(<<Name(to_lowercase(token))>>, state)
                    ELSE pushed(<<Operator(token[1])>>, state)
               ELSE IF stack_op # None THEN pushed(stack_op, state)
               ELSE IF logical_op # None THEN pushed(logical_op, state)
               ELSE IF boolean_op # None THEN pushed(boolean_op, state)
               ELSE pushed(word, state)
          [] state = "ParsingWordName" ->
               pushed(<<Name(token)>>, "InsideDefinition")
          [] state = "InsideDefinition" ->
               IF token = <<";">> THEN pushed(<<EndDefinition>>, "OutsideDefinition")
               ELSE IF common.res = "Abort"
               THEN [res |-> "Abort", instructions |-> instructions, state |-> state]
               ELSE IF common.res = "Ok" THEN pushed(common.items, state)
               ELSE IF is_operator(token)
               THEN IF is_word_defined(words, token)
                    THEN pushed(<<Name(token)>>, state)
                    ELSE pushed(<<Operator(token[1])>>, state)
               ELSE IF logical_op # None THEN pushed(logical_op, state)
               ELSE IF boolean_op # None THEN pushed(boolean_op, state)
               ELSE IF stack_op # None THEN pushed(stack_op, state)
               ELSE pushed(word, state)

\* the loop of parse_instructions over the tokens
RECURSIVE parse_tokens(_, _, _, _)
parse_tokens(tokens, instructions, state, words) ==
    IF tokens = << >>
    THEN [res |-> "Ok", instructions |-> instructions, state |-> state]
    ELSE LET r == parse_token(Head(tokens), instructions, state, words)
         IN  IF r.res # "Ok" THEN r
             ELSE parse_tokens(Tail(tokens), r.instructions, r.state, words)

\* yields [res, instructions, state]
parse_instructions(input, words) ==
    parse_tokens(tokenize(input), << >>, "OutsideDefinition", words)

(***************************************************************************)
(* Forth (forth/interpreter.rs): the ingestion of a definition.            *)
(***************************************************************************)
\* yields [res, words, definitions]; data[i + 1] aborts when out of bounds
define_word(words, definitions, data) ==
    LET starts == {k \in 0..(Len(data) - 1) : data[k + 1].t = "StartDefinition"}
    IN  IF starts = {}
        THEN [res |-> "Ok", words |-> words, definitions |-> definitions]
        ELSE LET i == CHOOSE k \in starts : \A j \in starts : k <= j
             IN  IF i + 1 >= Len(data)
                 THEN [res |-> "Abort", words |-> words, definitions |-> definitions]
                 ELSE IF data[i + 2].t = "Name"
                 THEN define_new_word(words, definitions, data[i + 2].n,
                                      SubSeq(data, i + 3, Len(data)))
                 ELSE [res |-> "InvalidWord", words |-> words,
                       definitions |-> definitions]

\* A plausible slip: the wrong kind of error for an unknown word.
execute_new_word_invalid(words, word_name) ==
    IF ~is_word_defined(words, word_name) THEN "InvalidWord" ELSE "Ok"

\* the guard of execute_new_word: the error it returns, or Ok to run the word
execute_new_word(words, word_name) ==
    IF ~is_word_defined(words, word_name) THEN "UnknownWord" ELSE "Ok"

(***************************************************************************)
(* State.  The fields of Forth (handler.stack, handler.writer and the      *)
(* WordManager), the position of process_instructions in its vector, the   *)
(* activations of execute_instruction, and history variables.              *)
(***************************************************************************)
VARIABLES
    stack,            \* handler.stack: [capacity, size, data]
    words,            \* word_manager.words: name -> index into definitions
    definitions,      \* word_manager.definitions
    execution_stack,  \* word_manager.execution_stack
    nesting_level,    \* word_manager.nesting_level
    writer,           \* whether handler.writer is Some
    output,           \* what has been written to the writer
    vec,              \* the vector given to process_instructions
    idx,              \* the position of its loop
    mode,             \* "idle", "top" (process_instructions), "word" (execute_word)
    result,           \* the result of the last process_instructions
    frames,           \* activations of execute_instruction: [def, i], innermost last
    trace,            \* history: the body instructions executed by this vector
    start,            \* history: the interpreter when the vector was given
    lines,            \* the vectors this session may give to process_instructions
    given,            \* history: the definition vectors accepted so far
    last,             \* history: the last call of the stack API
    source,           \* history: the line whose parse is vec, if it was parsed
    cursor,           \* run: the number of lines of the file taken so far
    stack_file        \* run: the lines written to stack.fth

vars == <<stack, words, definitions, execution_stack, nesting_level, writer,
          output, vec, idx, mode, result, frames, trace, start, lines, given, last,
          source, cursor, stack_file>>

interp_vars == <<words, definitions, execution_stack, nesting_level, writer,
                 output, vec, idx, mode, result, frames, trace, start, lines, given,
                 source, cursor, stack_file>>

\* what the steps of process_instructions leave alone
run_vars == <<lines, last, cursor, stack_file>>

Snapshot(st, ws, ds, nl) ==
    [stack |-> st, words |-> ws, definitions |-> ds, nesting_level |-> nl]

NoCall == [op |-> "new", res |-> "Ok", before |-> Stack_new(None), val |-> 0]

Call(op, r, v) == [op |-> op, res |-> r.res, before |-> stack, val |-> v]

InterpreterNew ==
    /\ words = << >>
    /\ definitions = << >>
    /\ execution_stack = << >>
    /\ nesting_level = 0
    /\ output = << >>
    /\ vec = << >>
    /\ idx = 0
    /\ mode = "idle"
    /\ result = "none"
    /\ frames = << >>
    /\ trace = << >>
    /\ start = Snapshot(Stack_new(None), << >>, << >>, 0)
    /\ given = << >>
    /\ source = << >>
    /\ cursor = 0
    /\ stack_file = << >>

(***************************************************************************)
(* The stack on its own: Stack::new with a size in bytes, then any         *)
(* sequence of calls of its API.                                           *)
(***************************************************************************)
StackInit ==
    /\ \E bytes \in 0..MaxBytes : stack = Stack_new(Some(bytes))
    /\ writer = FALSE
    /\ last = NoCall
    /\ lines = {}
    /\ InterpreterNew

StackPush ==
    \E v \in Values :
        LET r == push(stack, v)
        IN  stack' = r.st /\ last' = Call("push", r, v) /\ UNCHANGED interp_vars

StackDrop ==
    LET r == drop(stack)
    IN  stack' = r.st /\ last' = Call("drop", r, r.val) /\ UNCHANGED interp_vars

StackTop ==
    LET r == top(stack)
    IN  stack' = r.st /\ last' = Call("top", r, r.val) /\ UNCHANGED interp_vars

StackDup ==
    LET r == dup(stack)
    IN  stack' = r.st /\ last' = Call("dup", r, 0) /\ UNCHANGED interp_vars

StackSwap ==
    LET r == swap(stack)
    IN  stack' = r.st /\ last' = Call("swap", r, 0) /\ UNCHANGED interp_vars

StackOver ==
    LET r == over(stack)
    IN  stack' = r.st /\ last' = Call("over", r, 0) /\ UNCHANGED interp_vars

StackRot ==
    LET r == rot(stack)
    IN  stack' = r.st /\ last' = Call("rot", r, 0) /\ UNCHANGED interp_vars

StackNext ==
    \/ StackPush
    \/ StackDrop
    \/ StackTop
    \/ StackDup
    \/ StackSwap
    \/ StackOver
    \/ StackRot

StackSpec == StackInit /\ [][StackNext]_vars

\* C8: the capacity is the byte size divided by two (64 by default) and,
\* after any sequence of push, drop, dup, swap, over and rot, the size of
\* the stack is between 0 and the capacity.
C8_SizeWithinCapacity ==
    /\ Stack_new(None).capacity = 64
    /\ \A bytes \in 0..MaxBytes : Stack_new(Some(bytes)).capacity = bytes \div 2
    /\ 0 <= stack.size
    /\ stack.size <= stack.capacity

\* The precondition of each call of the stack API, as the kind of failure
\* its violation must produce ("Ok" when the precondition holds).
Expected(op, before) ==
    CASE op = "push" -> IF before.size = before.capacity THEN "Overflow" ELSE "Ok"
      [] op \in {"drop", "top"} -> IF before.size = 0 THEN "Underflow" ELSE "Ok"
      [] op = "dup" -> IF before.size = 0 THEN "Underflow"
                       ELSE IF before.size = before.capacity THEN "Overflow" ELSE "Ok"
      [] op = "swap" -> IF before.size < 2 THEN "Underflow" ELSE "Ok"
      [] op = "rot" -> IF before.size < 3 THEN "Underflow" ELSE "Ok"
      [] op = "over" -> IF before.size < 2 THEN "Underflow"
                        ELSE IF before.size = before.capacity THEN "Overflow" ELSE "Ok"
      [] OTHER -> "Ok"

\* C9: each call of the stack API fails exactly when its precondition is
\* violated, with the kind of failure specified, and a failed call leaves
\* the stack unchanged.
C9_FailsExactlyOnPrecondition ==
    /\ last.res = Expected(last.op, last.before)
    /\ last.res # "Ok" => stack = last.before

(***************************************************************************)
(* A deeper stack, so that the stack words act above untouched elements.   *)
(***************************************************************************)
\* Byte capacity of the deeper stack.
DeepBytes == 8

DeepStackInit ==
    /\ stack = Stack_new(Some(DeepBytes))
    /\ writer = FALSE
    /\ last = NoCall
    /\ lines = {}
    /\ InterpreterNew

DeepStackSpec == DeepStackInit /\ [][StackNext]_vars

\* the elements of a stack below its k topmost ones
Below(data, k) == SubSeq(data, 1, Len(data) - k)

\* the k-th element of a stack counted from the top (1 is the top)
FromTop(data, k) == data[Len(data) - k + 1]

\* C20: on success dup turns ..a into ..a a, swap ..a b into ..b a, over
\* ..a b into ..a b a and rot ..a b c into ..b c a; the elements below the
\* touched ones keep value and position, and top never changes the stack.
C20_StackWordEffects ==
    LET b == last.before.data
    IN  /\ last.op = "top" => stack = last.before
        /\ last.res = "Ok" =>
             /\ stack.size = Len(stack.data)
             /\ last.op = "dup" =>
                  stack.data = Below(b, 1) \o <<FromTop(b, 1), FromTop(b, 1)>>
             /\ last.op = "swap" =>
                  stack.data = Below(b, 2) \o <<FromTop(b, 1), FromTop(b, 2)>>
             /\ last.op = "over" =>
                  stack.data = Below(b, 2)
                               \o <<FromTop(b, 2), FromTop(b, 1), FromTop(b, 2)>>
             /\ last.op = "rot" =>
                  stack.data = Below(b, 3)
                               \o <<FromTop(b, 2), FromTop(b, 1), FromTop(b, 3)>>

(***************************************************************************)
(* The calculator on its own: calculate applied to operands taken at and   *)
(* around the limits of i16 and to operator symbols, known and unknown.    *)
(***************************************************************************)
Operands == {I16Min, I16Min + 1, -7, -2, -1, 0, 1, 2, 7, I16Max}

Symbols == {"+", "-", "*", "/", "%", "mod", ""}

CalcInit ==
    /\ stack = Stack_new(None)
    /\ writer = FALSE
    /\ last = NoCall
    /\ lines = {}
    /\ InterpreterNew

\* calculator.calculate(n1, n2, operation); the call and its outcome are
\* kept in last, the operands in last.before
CalcApply ==
    \E n1 \in Operands, n2 \in Operands, operation \in Symbols :
        \E c \in calculate(n1, n2, operation) :
            /\ last' = [op |-> operation, res |-> c.res,
                        before |-> <<n1, n2>>, val |-> c.val]
            /\ UNCHANGED <<stack, interp_vars>>

CalcSpec == CalcInit /\ [][CalcApply]_vars

\* q is the quotient of a by b truncated toward zero
IsTruncatedQuotient(a, b, q) ==
    /\ Abs(q) * Abs(b) <= Abs(a)
    /\ Abs(a) < (Abs(q) + 1) * Abs(b)
    /\ q > 0 => (a < 0) = (b < 0)
    /\ q < 0 => (a < 0) # (b < 0)

\* C19: for all i16 a and b, calculate(a, b, "/") returns the quotient
\* truncated toward zero as a value when b # 0 (without aborting, also for
\* -32768 / -1) and DivisionByZero when b = 0; every operator symbol other
\* than + - * / returns UndefinedOperation.
C19_Division ==
    last # NoCall =>
        LET a == last.before[1]
            b == last.before[2]
        IN  /\ last.op = "/" /\ b # 0 =>
                 /\ last.res = "Ok"
                 /\ InI16(TruncDiv(a, b)) => IsTruncatedQuotient(a, b, last.val)
            /\ last.op = "/" /\ b = 0 => last.res = "DivisionByZero"
            /\ last.op \notin {"+", "-", "*", "/"} => last.res = "UndefinedOperation"

(***************************************************************************)
(* The interpreter: process_instructions over one vector at a time, on a   *)
(* Forth that persists from one vector to the next.                        *)
(***************************************************************************)
Executed(def_index, i, instruction, st) ==
    [d |-> def_index, i |-> i, t |-> instruction.t, size |-> st.size,
     v |-> IF st.size > 0 THEN st.data[st.size] ELSE 0]

Record(entry) == IF Len(trace) < TraceCap THEN Append(trace, entry) ELSE trace

IsDefinition(v) == v # << >> /\ v[1].t = "StartDefinition"

\* a vector is given to process_instructions
Submit ==
    /\ mode = "idle"
    /\ nesting_level <= MaxNesting
    /\ \E v \in lines :
        /\ IsDefinition(v) =>
             /\ Len(definitions) < MaxDefs
             /\ \A k \in 1..Len(given) : given[k] # v
        /\ vec' = v
    /\ idx' = 0
    /\ mode' = "top"
    /\ result' = "none"
    /\ trace' = << >>
    /\ start' = Snapshot(stack, words, definitions, nesting_level)
    /\ source' = << >>
    /\ UNCHANGED <<stack, words, definitions, execution_stack, nesting_level,
                   writer, output, frames, given, run_vars>>

\* process_instructions returns
Finish(res) ==
    /\ result' = res
    /\ mode' = IF res = "Abort" THEN "aborted" ELSE "idle"
    /\ frames' = << >>

\* A plausible slip: no break after define_word, the loop goes on over the
\* elements of the definition.
DefineStepNoBreak ==
    LET r == define_word(words, definitions, SubSeq(vec, idx + 1, Len(vec)))
    IN  /\ words' = r.words
        /\ definitions' = r.definitions
        /\ IF r.res = "Ok"
           THEN idx' = idx + 1 /\ UNCHANGED <<mode, result, frames>>
           ELSE Finish(r.res) /\ UNCHANGED idx
        /\ UNCHANGED <<stack, execution_stack, output>>

\* the StartDefinition arm of process_instructions: define_word on the rest
\* of the vector, then break (interpreter.rs:79-82)
DefineStep ==
    LET r == define_word(words, definitions, SubSeq(vec, idx + 1, Len(vec)))
    IN  /\ words' = r.words
        /\ definitions' = r.definitions
        /\ Finish(r.res)
        /\ UNCHANGED <<stack, execution_stack, output, idx>>

\* one iteration of the loop of process_instructions (interpreter.rs:76-90)
TopStep ==
    /\ mode = "top"
    /\ UNCHANGED <<writer, vec, trace, start, nesting_level, source, run_vars>>
    /\ IF idx >= Len(vec)
       THEN /\ Finish("Ok")
            /\ UNCHANGED <<stack, words, definitions, execution_stack, output, idx>>
       ELSE LET element == vec[idx + 1]
            IN  CASE element.t = "StartDefinition" -> DefineStep
                  [] element.t = "Name" ->
                       LET r == execute_new_word(words, element.n)
                       IN  IF r # "Ok"
                           THEN /\ Finish(r)
                                /\ UNCHANGED <<stack, words, definitions,
                                               execution_stack, output, idx>>
                           ELSE /\ execution_stack' = Append(execution_stack, element.n)
                                /\ mode' = "word"
                                /\ UNCHANGED <<stack, words, definitions, output,
                                               idx, result, frames>>
                  [] OTHER ->
                       \E o \in handle_instruction(stack, writer, output, element) :
                           /\ stack' = o.st
                           /\ output' = o.out
                           /\ UNCHANGED <<words, definitions, execution_stack>>
                           /\ IF o.res = "Ok"
                              THEN idx' = idx + 1 /\ UNCHANGED <<mode, result, frames>>
                              ELSE Finish(o.res) /\ UNCHANGED idx
    /\ given' = IF /\ idx < Len(vec)
                   /\ vec[idx + 1].t = "StartDefinition"
                   /\ result' = "Ok"
                THEN Append(given, SubSeq(vec, idx + 1, Len(vec)))
                ELSE given

\* one iteration of the loop of process_data (forth.rs:101-177)
ProcessData ==
    /\ mode = "top"
    /\ UNCHANGED <<writer, vec, trace, start, nesting_level, source, run_vars>>
    /\ IF idx >= Len(vec)
       THEN /\ Finish("Ok")
            /\ UNCHANGED <<stack, words, definitions, execution_stack, output, idx>>
       ELSE LET element == vec[idx + 1]
            IN  CASE element.t = "StartDefinition" -> DefineStep
                  [] element.t = "Name" ->
                       LET r == execute_new_word(words, element.n)
                       IN  IF r # "Ok"
                           THEN /\ Finish(r)
                                /\ UNCHANGED <<stack, words, definitions,
                                               execution_stack, output, idx>>
                           ELSE /\ execution_stack' = Append(execution_stack, element.n)
                                /\ mode' = "word"
                                /\ UNCHANGED <<stack, words, definitions, output,
                                               idx, result, frames>>
                  [] OTHER ->
                       \E o \in process_data_element(stack, writer, output, element) :
                           /\ stack' = o.st
                           /\ output' = o.out
                           /\ UNCHANGED <<words, definitions, execution_stack>>
                           /\ IF o.res = "Ok"
                              THEN idx' = idx + 1 /\ UNCHANGED <<mode, result, frames>>
                              ELSE Finish(o.res) /\ UNCHANGED idx
    /\ given' = IF /\ idx < Len(vec)
                   /\ vec[idx + 1].t = "StartDefinition"
                   /\ result' = "Ok"
                THEN Append(given, SubSeq(vec, idx + 1, Len(vec)))
                ELSE given

\* A plausible slip: the word is read with last(), and so never removed.
peek_word(words_to_run) == words_to_run

\* execution_stack.pop(): what is left of the stack
pop_word(words_to_run) == SubSeq(words_to_run, 1, Len(words_to_run) - 1)

\* one iteration of the loop of execute_word (word.rs:146-166)
WordLoop ==
    /\ mode = "word"
    /\ frames = << >>
    /\ UNCHANGED <<stack, words, definitions, nesting_level, writer, output, vec,
                   trace, start, given, source, run_vars>>
    /\ IF execution_stack = << >>
       THEN /\ idx' = idx + 1
            /\ mode' = "top"
            /\ UNCHANGED <<execution_stack, result, frames>>
       ELSE LET current_word == execution_stack[Len(execution_stack)]
            IN  /\ execution_stack' = pop_word(execution_stack)
                /\ IF current_word \in DOMAIN words
                   THEN /\ frames' = <<[def |-> words[current_word], i |-> 0]>>
                        /\ UNCHANGED <<idx, mode, result>>
                   ELSE /\ Finish("UnknownWord")
                        /\ UNCHANGED idx

Return == frames' = SubSeq(frames, 1, Len(frames) - 1)

Advance(next) == frames' = [frames EXCEPT ![Len(frames)].i = next]

Enter(next, def_index, i) ==
    frames' = Append([frames EXCEPT ![Len(frames)].i = next], [def |-> def_index, i |-> i])

\* one iteration of the loop of execute_instruction (word.rs:213-454) in the
\* innermost activation
BodyStep ==
    /\ mode = "word"
    /\ frames # << >>
    /\ UNCHANGED <<words, definitions, writer, vec, idx, start, given, source,
                   run_vars>>
    /\ LET def_index == frames[Len(frames)].def
           i == frames[Len(frames)].i
       IN  IF def_index >= Len(definitions) \/ i >= Len(definitions[def_index + 1])
           THEN /\ Return
                /\ UNCHANGED <<stack, execution_stack, nesting_level, output, mode,
                               result, trace>>
           ELSE LET instruction == definitions[def_index + 1][i + 1]
                IN  /\ trace' = Record(Executed(def_index, i, instruction, stack))
                    /\ CASE instruction.t = "Name" ->
                              /\ execution_stack' = Append(execution_stack, instruction.n)
                              /\ Advance(i + 1)
                              /\ UNCHANGED <<stack, nesting_level, output, mode, result>>
                         [] instruction.t = "DefinitionIndex" ->
                              /\ Enter(i + 1, instruction.v, 0)
                              /\ UNCHANGED <<stack, execution_stack, nesting_level,
                                             output, mode, result>>
                         [] instruction.t = "If" ->
                              LET r == execute_if(definitions, def_index, i, stack,
                                                  nesting_level)
                              IN  /\ stack' = r.st
                                  /\ nesting_level' = r.nesting_level
                                  /\ UNCHANGED <<execution_stack, output>>
                                  /\ IF r.res # "Ok"
                                     THEN Finish(r.res)
                                     ELSE /\ UNCHANGED <<mode, result>>
                                          /\ IF r.child = None
                                             THEN Advance(r.next)
                                             ELSE Enter(r.next, def_index, r.child[1])
                         [] instruction.t = "Else" ->
                              LET r == execute_else(nesting_level)
                              IN  /\ nesting_level' = r.nesting_level
                                  /\ IF r.break THEN Return ELSE Advance(i + 1)
                                  /\ UNCHANGED <<stack, execution_stack, output, mode,
                                                 result>>
                         [] instruction.t = "Then" ->
                              LET r == execute_then(nesting_level)
                              IN  /\ nesting_level' = r.nesting_level
                                  /\ IF r.break THEN Return ELSE Advance(i + 1)
                                  /\ UNCHANGED <<stack, execution_stack, output, mode,
                                                 result>>
                         [] OTHER ->
                              \E o \in execute_data(stack, writer, output, instruction) :
                                  /\ stack' = o.st
                                  /\ output' = o.out
                                  /\ UNCHANGED <<execution_stack, nesting_level>>
                                  /\ IF o.res = "Ok"
                                     THEN Advance(i + 1) /\ UNCHANGED <<mode, result>>
                                     ELSE Finish(o.res)

Next ==
    \/ Submit
    \/ TopStep
    \/ WordLoop
    \/ BodyStep

(***************************************************************************)
(* Sessions that define and redefine words.                                *)
(***************************************************************************)
foo == <<"f", "o", "o">>
bar == <<"b", "a", "r">>
negate == <<"n", "e", "g", "a", "t", "e">>

Definition(name, body) == <<StartDefinition, Name(name)>> \o body \o <<EndDefinition>>

DefFoo5 == Definition(foo, <<Number(5)>>)
DefFoo6 == Definition(foo, <<Number(6)>>)
DefBarFoo == Definition(bar, <<Name(foo)>>)
DefFooFoo == Definition(foo, <<Name(foo)>>)
RunBarFoo == <<Name(bar), Name(foo)>>
RunBetween == <<Number(5), Name(foo), Number(6)>>
DropLine == <<StackWord("Drop")>>
NegateLine == Definition(negate, <<Number(-1), Operator("*")>>) \o <<Number(10), Name(negate)>>
ChainLine == DefFoo5 \o DefBarFoo \o DefFoo6 \o RunBarFoo

RedefLines == {DefFoo5, DefFoo6, DefBarFoo, DefFooFoo, RunBarFoo, RunBetween,
               DropLine, NegateLine, ChainLine}

RedefInit ==
    /\ stack = Stack_new(Some(MaxBytes))
    /\ writer = FALSE
    /\ last = NoCall
    /\ InterpreterNew
    /\ lines = RedefLines

RedefSpec == RedefInit /\ [][Next]_vars

Done == mode = "idle" /\ result # "none"

\* The instructions an invocation of a body runs through, references to
\* other words replaced by what they denote (a name by its current entry).
RECURSIVE Closure(_, _, _, _)
Closure(ds, ws, body, depth) ==
    IF body = << >> THEN << >>
    ELSE LET h == Head(body)
             rest == Closure(ds, ws, Tail(body), depth)
         IN  CASE h.t = "DefinitionIndex" /\ depth > 0 /\ h.v < Len(ds) ->
                    Closure(ds, ws, ds[h.v + 1], depth - 1) \o rest
               [] h.t = "Name" /\ depth > 0 /\ h.n \in DOMAIN ws ->
                    Closure(ds, ws, ds[ws[h.n] + 1], depth - 1) \o rest
               [] OTHER -> <<h>> \o rest

C1_Scenario ==
    (/\ Done
     /\ given = <<DefFoo5, DefBarFoo, DefFoo6>>
     /\ vec = RunBarFoo
     /\ start.stack.size = 0)
    => result = "Ok" /\ stack.data = <<5, 6>>

C1_Frozen ==
    \A k \in 1..Len(definitions) :
        /\ k <= Len(definitions')
        /\ Closure(definitions', words', definitions'[k], Len(definitions'))
             = Closure(definitions, words, definitions[k], Len(definitions))

\* C1: redefinition is not transitive.  After foo is defined as 5, bar as
\* foo and foo again as 6, running bar foo on an empty stack leaves 5 6; in
\* general, what a compiled body runs through never changes when words are
\* defined or redefined later.
C1_NonTransitive == [][C1_Frozen /\ C1_Scenario']_vars

C1_Witness ==
    /\ Done
    /\ given = <<DefFoo5, DefBarFoo, DefFoo6>>
    /\ vec = RunBarFoo
    /\ start.stack.size = 0
    /\ stack.data = <<5, 6>>

\* C2: a vector holding definitions followed by code is processed to its
\* end: on a fresh interpreter ": negate -1 * ; 10 negate" leaves -10 and
\* ": foo 5 ; : bar foo ; : foo 6 ; bar foo" leaves 5 6.
C2_FullyProcessed ==
    (Done /\ start.definitions = << >> /\ start.stack.size = 0)
    => /\ vec = NegateLine => result = "Ok" /\ stack.data = <<-10>>
       /\ vec = ChainLine => result = "Ok" /\ stack.data = <<5, 6>>

(***************************************************************************)
(* Sessions for termination: a word that mentions its own name, a word     *)
(* that calls it from both branches of a conditional and after it.         *)
(***************************************************************************)
DefBarIf ==
    Definition(bar, <<If, Name(foo), Else, Name(foo), Name(foo), Then, Name(foo)>>)

TermLines == {DefFoo5, DefFooFoo, DefBarIf, <<Name(foo)>>, <<Name(bar)>>,
              <<Number(0)>>, DropLine}

TermInit ==
    /\ stack = Stack_new(Some(MaxBytes))
    /\ writer = FALSE
    /\ last = NoCall
    /\ InterpreterNew
    /\ lines = TermLines

\* the loops of the interpreter go on while they can
TermFair ==
    /\ TermInit
    /\ [][Next]_vars
    /\ WF_vars(WordLoop \/ BodyStep)

\* C7: every invocation of a defined word terminates, whatever the
\* dictionary (a body that mentions its own name included) and the stack.
C7_Terminates == (mode = "word") ~> (mode # "word")

C7_Witness ==
    /\ given = <<DefFoo5, DefFooFoo, DefBarIf>>
    /\ vec = <<Name(bar)>>
    /\ Done
    /\ result = "Ok"
    /\ Len(trace) > 3

NumbersBefore(v, k) == \A j \in 1..k : v[j].t = "Number"

\* C10: a vector that reaches a name absent from the dictionary fails with
\* UnknownWord; the instructions before it have taken effect, none after it
\* is executed and the dictionary is unchanged.
C10_UnknownWord ==
    (/\ Done
     /\ idx < Len(vec)
     /\ vec[idx + 1].t = "Name"
     /\ vec[idx + 1].n \notin DOMAIN start.words)
    => /\ result = "UnknownWord"
       /\ words = start.words
       /\ definitions = start.definitions
       /\ output = << >>
       /\ NumbersBefore(vec, idx) =>
            stack.data = start.stack.data \o [j \in 1..idx |-> vec[j].v]

C10_Witness ==
    /\ Done
    /\ vec = RunBetween
    /\ idx = 1
    /\ result = "UnknownWord"
    /\ stack.data = start.stack.data \o <<5>>

(***************************************************************************)
(* Sessions that define one word f whose body holds a conditional, push    *)
(* conditions and invoke f, any number of times.                           *)
(***************************************************************************)
f == <<"f">>

Atoms == {Number(0), OutputCR}

Pieces == UNION {[1..n -> Atoms] : n \in 0..MaxPiece}

Conditional(A, B, hasElse) ==
    <<If>> \o A \o (IF hasElse THEN <<Else>> \o B ELSE << >>) \o <<Then>>

\* P If A Then T and P If A Else B Then T
SingleBodies ==
    {P \o Conditional(A, B, TRUE) \o T : P \in Pieces, A \in Pieces, B \in Pieces, T \in Pieces}
    \cup {P \o Conditional(A, << >>, FALSE) \o T : P \in Pieces, A \in Pieces, T \in Pieces}

\* an If with no Then after it
UnclosedBodies ==
    {P \o <<If>> \o A : P \in Pieces, A \in Pieces \ {<< >>}}
    \cup {P \o <<If>> \o A \o <<Else>> \o B : P \in Pieces, A \in Pieces, B \in Pieces \ {<< >>}}

SessionLines(body) ==
    {Definition(f, body), <<Name(f)>>, DropLine} \cup {<<Number(v)>> : v \in Values}

SessionInit(bodies) ==
    /\ stack = Stack_new(Some(MaxBytes))
    /\ writer = FALSE
    /\ last = NoCall
    /\ InterpreterNew
    /\ \E body \in bodies : lines = SessionLines(body)

CondInit == SessionInit(SingleBodies \cup UnclosedBodies)

CondSpec == CondInit /\ [][Next]_vars

\* The structure of a body as written: the Then and the Else that belong to
\* the If at position c (0 when there is none), by proper nesting.
Balance(body, a, b) ==
    Cardinality({k \in a..b : body[k].t = "If"})
        - Cardinality({k \in a..b : body[k].t = "Then"})

Least(S) == IF S = {} THEN 0 ELSE CHOOSE x \in S : \A y \in S : x <= y

MatchThen(body, c) ==
    Least({t \in (c + 1)..Len(body) :
             body[t].t = "Then" /\ Balance(body, c + 1, t - 1) = 0})

MatchElse(body, c) ==
    Least({e \in (c + 1)..(MatchThen(body, c) - 1) :
             body[e].t = "Else" /\ Balance(body, c + 1, e - 1) = 0})

ThenBranch(body, c) ==
    (c + 1)..((IF MatchElse(body, c) # 0 THEN MatchElse(body, c)
               ELSE MatchThen(body, c)) - 1)

ElseBranch(body, c) ==
    IF MatchElse(body, c) = 0 THEN {}
    ELSE (MatchElse(body, c) + 1)..(MatchThen(body, c) - 1)

\* the positions of S in the order the invocation executed them
Ran(S) ==
    LET In(e) == e.i + 1 \in S
        es == SelectSeq(trace, In)
    IN  [k \in 1..Len(es) |-> es[k].i + 1]

\* the positions of S in source order
RECURSIVE Ascending(_)
Ascending(S) ==
    IF S = {} THEN << >> ELSE <<Least(S)>> \o Ascending(S \ {Least(S)})

IsPrefix(a, b) == Len(a) <= Len(b) /\ a = SubSeq(b, 1, Len(a))

SourceBody == SubSeq(given[1], 3, Len(given[1]) - 1)

FirstIf == Least({k \in 1..Len(SourceBody) : SourceBody[k].t = "If"})

\* the executions of the instruction at position c that popped a value
Pops(c) == {k \in 1..Len(trace) : trace[k].i + 1 = c /\ trace[k].size > 0}

\* f, whose body is one of bodies, is being or has been invoked
Invoked(bodies) ==
    /\ given # << >>
    /\ SourceBody \in bodies
    /\ vec = <<Name(f)>>
    /\ Len(trace) < TraceCap

\* C3: when a body of the form P If A [Else B] Then T reaches its If, the
\* value v on top is popped; for every v # 0 (not only -1) exactly the
\* instructions of A run and none of B; for v = 0 exactly those of B run, and
\* none of a branch when there is no Else.  It holds whatever the stack and
\* whatever was invoked before.
C3_Truthiness ==
    (Invoked(SingleBodies) /\ Pops(FirstIf) # {}) =>
        LET v == trace[Least(Pops(FirstIf))].v
            A == ThenBranch(SourceBody, FirstIf)
            B == ElseBranch(SourceBody, FirstIf)
            selected == IF v # 0 THEN A ELSE B
            unselected == IF v # 0 THEN B ELSE A
        IN  /\ Cardinality(Pops(FirstIf)) = 1
            /\ Ran(unselected) = << >>
            /\ IsPrefix(Ran(selected), Ascending(selected))
            /\ (Done /\ result = "Ok") => Ran(selected) = Ascending(selected)

C3_Witness ==
    /\ Invoked(SingleBodies)
    /\ Done
    /\ result = "Ok"
    /\ start.nesting_level > 0
    /\ Pops(FirstIf) # {}
    /\ trace[Least(Pops(FirstIf))].v = 2
    /\ ElseBranch(SourceBody, FirstIf) # {}
    /\ Ran(ThenBranch(SourceBody, FirstIf)) # << >>
    /\ Ran(ElseBranch(SourceBody, FirstIf)) = << >>

\* C4: for every body P If A Then T or P If A Else B Then T and every stack,
\* an invocation resumes after the Then whichever branch ran: each
\* instruction of the tail T is executed exactly once, never twice.
C4_TailOnce ==
    Invoked(SingleBodies) =>
        LET T == (MatchThen(SourceBody, FirstIf) + 1)..Len(SourceBody)
        IN  /\ IsPrefix(Ran(T), Ascending(T))
            /\ (Done /\ result = "Ok") => Ran(T) = Ascending(T)

\* C6: invoking a word whose body holds an If with no matching Then fails
\* with InvalidWord when that If is reached, and the instructions after the
\* If are not executed.
C6_UnclosedIf ==
    (Invoked(UnclosedBodies) /\ Pops(FirstIf) # {}) =>
        /\ Ran((FirstIf + 1)..Len(SourceBody)) = << >>
        /\ Done => result = "InvalidWord"

(***************************************************************************)
(* Sessions whose word f holds a conditional nested in a branch of         *)
(* another.                                                                *)
(***************************************************************************)
Branches == {<<OutputCR>>}

Inners ==
    {X \o Conditional(A, B, e) \o Y :
        X \in Pieces, A \in Branches, B \in Branches, e \in BOOLEAN, Y \in Pieces}

NestedBodies ==
    {Conditional(I, Z, e) \o T : I \in Inners, Z \in Branches, e \in BOOLEAN, T \in Pieces}
    \cup {Conditional(Z, I, TRUE) \o T : I \in Inners, Z \in Branches, T \in Pieces}

NestedInit == SessionInit(NestedBodies)

NestedSpec == NestedInit /\ [][Next]_vars

\* the conditionals of the body that enclose position q
Enclosing(body, q) ==
    {c \in 1..Len(body) : body[c].t = "If" /\ c < q /\ q < MatchThen(body, c)}

\* the instructions of the body that belong to a branch
BranchPositions(body) ==
    {q \in 1..Len(body) : body[q].t \notin {"Else", "Then"} /\ Enclosing(body, q) # {}}

\* every conditional around q has popped a condition that selects the
\* branch q is in
Selected(body, q) ==
    \A c \in Enclosing(body, q) :
        /\ Pops(c) # {}
        /\ LET v == trace[Least(Pops(c))].v
           IN  \/ v # 0 /\ q \in ThenBranch(body, c)
               \/ v = 0 /\ q \in ElseBranch(body, c)

\* C5: for a body in which a conditional is nested inside a branch of
\* another and for every combination of popped conditions, an invocation
\* executes exactly the instructions of the branches the conditions select,
\* in source order and once each, and no instruction of an unselected branch.
C5_NestedBranches ==
    Invoked(NestedBodies) =>
        LET all == BranchPositions(SourceBody)
            selected == {q \in all : Selected(SourceBody, q)}
        IN  /\ \A c \in all : SourceBody[c].t = "If" => Cardinality(Pops(c)) <= 1
            /\ Cardinality(Pops(FirstIf)) <= 1
            /\ Ran(all \ selected) = << >>
            /\ IsPrefix(Ran(selected), Ascending(selected))
            /\ (Done /\ result = "Ok") => Ran(selected) = Ascending(selected)

C5_Witness ==
    /\ Invoked(NestedBodies)
    /\ Done
    /\ result = "Ok"
    /\ SourceBody[1].t = "If"
    /\ SourceBody[2].t = "If"
    /\ MatchElse(SourceBody, 1) # 0
    /\ MatchElse(SourceBody, 2) # 0
    /\ Pops(1) # {} /\ trace[Least(Pops(1))].v # 0
    /\ Pops(2) # {} /\ trace[Least(Pops(2))].v = 0
    /\ Ran(ElseBranch(SourceBody, 2)) # << >>
    /\ Ran(ThenBranch(SourceBody, 2)) = << >>
    /\ Ran(ElseBranch(SourceBody, 1)) = << >>

(***************************************************************************)
(* Sessions of arithmetic at top level.                                    *)
(***************************************************************************)
DivZero == <<Number(4), Number(0), Operator("/")>>
DivZeroThen == DivZero \o <<Number(2)>>
DefHalf == Definition(f, <<Number(4), Number(2), Operator("/")>>)

ArithLines == {DivZero, DivZeroThen, DefHalf, <<Name(f)>>, <<Number(2)>>, DropLine}

ArithInit ==
    /\ stack = Stack_new(Some(MaxBytes))
    /\ writer = FALSE
    /\ last = NoCall
    /\ InterpreterNew
    /\ lines = ArithLines

ArithSpec == ArithInit /\ [][Next]_vars

\* C18: processing 4 0 / returns DivisionByZero; the failing operator has
\* consumed both operands and pushed nothing, so the stack is as it was
\* before the vector (empty on a fresh interpreter), and no later
\* instruction of the vector runs.
C18_DivisionByZero ==
    (/\ Done
     /\ IsPrefix(DivZero, vec)
     /\ start.stack.size < start.stack.capacity)
    => /\ result = "DivisionByZero"
       /\ idx = 2
       /\ stack = start.stack
       /\ output = << >>

C18_Witness ==
    /\ Done
    /\ vec = DivZeroThen
    /\ start.stack.data = << >>
    /\ result = "DivisionByZero"
    /\ stack.data = << >>

(***************************************************************************)
(* Sessions of definitions of every shape: all the short vectors over a    *)
(* start, an end, a name and a number, and definitions under names that    *)
(* are numerals or hold characters of every class.                         *)
(***************************************************************************)
\* Longest vector of the generated shapes.
MaxShape == 3

ShapeAtoms == {StartDefinition, EndDefinition, Name(foo), Number(5)}

ShapeVectors == UNION {[1..n -> ShapeAtoms] : n \in 1..MaxShape}

\* the vector of the test cannot_define_invalid_word
NoNameVector ==
    <<StartDefinition, Number(11), Number(-1), Operator("*"), EndDefinition>>

ShapeNames ==
    {<<"1">>, <<"-", "1">>, <<"0", "7">>, <<"4", "0", "0", "0", "0">>,
     <<"-", "4", "0", "0", "0", "0">>, <<"a", " ", "b">>,
     <<"a", GraveAccent, "b">>, <<"1", "+">>}

NamedDefinitions == {Definition(n, <<Number(2)>>) : n \in ShapeNames}

ShapeLines == ShapeVectors \cup NamedDefinitions \cup {NoNameVector, DropLine}

ShapeInit ==
    /\ stack = Stack_new(Some(MaxBytes))
    /\ writer = FALSE
    /\ last = NoCall
    /\ InterpreterNew
    /\ lines = ShapeLines

ShapeSpec == ShapeInit /\ [][Next]_vars

\* process_instructions has returned or aborted
Returned == mode \in {"idle", "aborted"} /\ result # "none"

\* process_instructions has ended at a StartDefinition
AtDefinition ==
    Returned /\ idx < Len(vec) /\ vec[idx + 1].t = "StartDefinition"

\* the vector from the StartDefinition that ended process_instructions
Ingested == SubSeq(vec, idx + 1, Len(vec))

\* d, which begins with StartDefinition, has no name after it or no
\* EndDefinition after the name
Malformed(d) ==
    \/ Len(d) < 2
    \/ d[2].t # "Name"
    \/ \A k \in 3..Len(d) : d[k].t # "EndDefinition"

\* C11: a vector whose StartDefinition is not immediately followed by a
\* name (also when StartDefinition is the last instruction) or has no
\* EndDefinition after the name gives the error InvalidWord, never an
\* abort, and defines nothing.
C11_MalformedDefinition ==
    (AtDefinition /\ Malformed(Ingested))
    => /\ result = "InvalidWord"
       /\ words = start.words
       /\ definitions = start.definitions

\* name is an integer literal: an optional leading -, then digits
IsIntegerLiteral(name) ==
    LET digits == IF name # << >> /\ name[1] = "-" THEN Tail(name) ELSE name
    IN  digits # << >> /\ \A k \in 1..Len(digits) : digits[k] \in Digits

\* name holds a character neither alphanumeric nor ASCII punctuation
HasForeignCharacter(name) ==
    \E k \in 1..Len(name) : name[k] \notin Letters \cup Digits \cup AsciiPunctuation

\* C12: defining a word whose name is an integer literal of any magnitude,
\* or holds a character neither alphanumeric nor ASCII punctuation, fails
\* with InvalidWord and leaves the dictionary unchanged.
C12_InvalidName ==
    (/\ AtDefinition
     /\ Len(Ingested) >= 2
     /\ Ingested[2].t = "Name"
     /\ IsIntegerLiteral(Ingested[2].n) \/ HasForeignCharacter(Ingested[2].n))
    => /\ result = "InvalidWord"
       /\ words = start.words
       /\ definitions = start.definitions

\* C13: a definition, successful or failing, never changes the operand
\* stack: after a definition vector has been processed the stack is the
\* one before it.
C13_StackUntouched ==
    (Returned /\ IsDefinition(vec)) => stack = start.stack

\* a definition accepted, and one rejected, over a stack that holds values
C13_Witness ==
    /\ Returned
    /\ IsDefinition(vec)
    /\ stack.size > 0
    /\ \/ result = "Ok" /\ definitions # start.definitions
       \/ result = "InvalidWord" /\ vec = NoNameVector

(***************************************************************************)
(* Sessions of lines of text given to Forth::parse_instructions and then   *)
(* to process_instructions, as the integration tests do.                   *)
(***************************************************************************)
\* the tokens joined by one space
RECURSIVE Spaced(_)
Spaced(tokens) ==
    IF tokens = << >> THEN << >>
    ELSE IF Len(tokens) = 1 THEN tokens[1]
    ELSE tokens[1] \o <<" ">> \o Spaced(Tail(tokens))

\* the line : name body ;
DefLine(name, body) == Spaced(<<<<":">>, name, body, <<";">>>>)

\* a line is parsed against the dictionary and given to process_instructions
SubmitLine ==
    /\ mode = "idle"
    /\ nesting_level <= MaxNesting
    /\ \E l \in lines :
        LET r == parse_instructions(l, words)
        IN  /\ IsDefinition(r.instructions) =>
                 /\ Len(definitions) < MaxDefs
                 /\ \A k \in 1..Len(given) : given[k] # r.instructions
            /\ source' = l
            /\ IF r.res = "Abort"
               THEN vec' = << >> /\ mode' = "aborted" /\ result' = "Abort"
               ELSE vec' = r.instructions /\ mode' = "top" /\ result' = "none"
    /\ idx' = 0
    /\ trace' = << >>
    /\ start' = Snapshot(stack, words, definitions, nesting_level)
    /\ UNCHANGED <<stack, words, definitions, execution_stack, nesting_level,
                   writer, output, frames, given, run_vars>>

TextNext ==
    \/ SubmitLine
    \/ ProcessData
    \/ WordLoop
    \/ BodyStep

\* lines given to the Forth of interpreter.rs: parse_instructions, then
\* process_instructions
InterpreterNext ==
    \/ SubmitLine
    \/ TopStep
    \/ WordLoop
    \/ BodyStep

TextInit(texts) ==
    /\ stack = Stack_new(Some(MaxBytes))
    /\ writer = FALSE
    /\ last = NoCall
    /\ InterpreterNew
    /\ lines = texts

\* the line drop
DropText == <<"d", "r", "o", "p">>

(***************************************************************************)
(* One word defined and referred to in several letter cases.               *)
(***************************************************************************)
CaseVariants == {<<"f", "o", "o">>, <<"F", "O", "O">>, <<"F", "o", "o">>}

CaseLines == {DefLine(n, <<"5">>) : n \in CaseVariants} \cup CaseVariants \cup {DropText}

CaseInit == TextInit(CaseLines)

CaseSpec == CaseInit /\ [][InterpreterNext]_vars

\* C14: word names are case-insensitive: once a definition of a name in any
\* letter case has been parsed and processed, the name is stored
\* lower-cased, and a later occurrence of the name in any letter case parses
\* to a reference to that word and invoking it never gives UnknownWord.
C14_CaseInsensitive ==
    /\ \A n \in DOMAIN words : n = to_lowercase(n)
    /\ (/\ Done
        /\ source \in CaseVariants
        /\ \E m \in DOMAIN start.words : to_lowercase(m) = to_lowercase(source))
       => /\ result # "UnknownWord"
          /\ \E m \in DOMAIN start.words :
                to_lowercase(m) = to_lowercase(source) /\ vec = <<Name(m)>>

(***************************************************************************)
(* A reserved name defined by the user, then used at top level and in the  *)
(* body of a later definition.                                             *)
(***************************************************************************)
Reserved ==
    {<<"+">>, <<"-">>, <<"*">>, <<"/">>, <<".">>, <<"e", "m", "i", "t">>,
     <<"c", "r">>, <<"d", "u", "p">>, <<"d", "r", "o", "p">>,
     <<"s", "w", "a", "p">>, <<"o", "v", "e", "r">>, <<"r", "o", "t">>,
     <<"<">>, <<">">>, <<"=">>, <<"a", "n", "d">>, <<"o", "r">>,
     <<"n", "o", "t">>, <<"i", "f">>, <<"e", "l", "s", "e">>,
     <<"t", "h", "e", "n">>}

g == <<"g">>

\* (the only number is 0, so that the values on the stack stay few)
ReservedLines(r) ==
    {DefLine(r, <<"0">>), r, DefLine(g, r), g, <<"0">>, DropText}

ReservedInit ==
    /\ stack = Stack_new(Some(MaxBytes))
    /\ writer = FALSE
    /\ last = NoCall
    /\ InterpreterNew
    /\ \E r \in Reserved : lines = ReservedLines(r)

ReservedSpec == ReservedInit /\ [][InterpreterNext]_vars

\* a line has just been parsed
Parsed == mode = "top" /\ idx = 0 /\ source # << >>

\* C15: after the user has defined a word whose name is a reserved name,
\* every later occurrence of the name, at top level and in the body of a
\* later definition, parses to the user word and not to the built-in.
C15_ReservedOverride ==
    \A r \in Reserved :
        (Parsed /\ r \in DOMAIN start.words)
        => /\ source = r => vec = <<Name(r)>>
           /\ source = DefLine(g, r) =>
                vec = <<StartDefinition, Name(g), Name(r), EndDefinition>>

(***************************************************************************)
(* The orchestrator (lib.rs): run reads the lines of a file, trims them,   *)
(* drops the empty ones, unifies the definitions written on several lines  *)
(* and then, line by line, lower-cases, parses and processes, and writes   *)
(* the stack to stack.fth.                                                 *)
(***************************************************************************)
\* str::trim
RECURSIVE trim(_)
trim(line) ==
    IF line = << >> THEN line
    ELSE IF is_whitespace(line[1]) THEN trim(Tail(line))
    ELSE IF is_whitespace(line[Len(line)]) THEN trim(SubSeq(line, 1, Len(line) - 1))
    ELSE line

ends_with(str, c) == str # << >> /\ str[Len(str)] = c

\* the loop of unify_multiline_definitions from line k on
RECURSIVE unify_from(_, _, _, _, _)
unify_from(input, k, unified_lines, current_definition, in_definition) ==
    IF k > Len(input)
    THEN IF current_definition # << >>
         THEN Append(unified_lines, trim(current_definition))
         ELSE unified_lines
    ELSE LET trimmed_line == trim(input[k])
         IN  IF starts_with(trimmed_line, <<":">>) /\ ends_with(trimmed_line, ";")
             THEN unify_from(input, k + 1, Append(unified_lines, trimmed_line),
                             << >>, FALSE)
             ELSE IF starts_with(trimmed_line, <<":">>)
             THEN unify_from(input, k + 1, unified_lines,
                             current_definition \o trimmed_line \o <<" ">>, TRUE)
             ELSE IF in_definition
             THEN IF ends_with(trimmed_line, ";")
                  THEN unify_from(input, k + 1,
                                  Append(unified_lines,
                                         trim(current_definition \o trimmed_line
                                              \o <<" ">>)),
                                  << >>, FALSE)
                  ELSE unify_from(input, k + 1, unified_lines,
                                  current_definition \o trimmed_line \o <<" ">>, TRUE)
             ELSE unify_from(input, k + 1, Append(unified_lines, trimmed_line),
                             << >>, in_definition)

unify_multiline_definitions(input) == unify_from(input, 1, << >>, << >>, FALSE)

\* the sequence without its empty lines
RECURSIVE non_empty(_)
non_empty(input) ==
    IF input = << >> THEN << >>
    ELSE IF Head(input) = << >> THEN non_empty(Tail(input))
    ELSE <<Head(input)>> \o non_empty(Tail(input))

\* the lines run works on, from the lines of the file (lib.rs:55-63)
unified_input(file) ==
    unify_multiline_definitions(non_empty([k \in 1..Len(file) |-> trim(file[k])]))

\* Most lines in a file.
MaxFile == 3

\* the line ." s"
Quote(s) == <<".", "\"", " ">> \o s \o <<"\"">>

Literals ==
    {<<"H", "i">>, <<"a", " ", " ", "b">>, <<"a", ":", "b", ";", " ", "c">>,
     <<"O", "K", " ", ":", "D">>}

RawLines ==
    {Quote(s) : s \in Literals}
    \cup {DropText, <<" ", "1", " ">>, << >>, <<":", " ", "f">>, <<"7", " ", ";">>, f}

Files == UNION {[1..n -> RawLines] : n \in 1..MaxFile}

RunInit ==
    /\ stack = Stack_new(Some(MaxBytes))
    /\ writer = TRUE
    /\ last = NoCall
    /\ InterpreterNew
    /\ \E file \in Files : lines = unified_input(file)

\* the head of the loop of run: the next line is lower-cased, parsed and
\* given to process_data; after the last line run returns Ok
RunLine ==
    /\ mode = "idle"
    /\ result = "none"
    /\ trace' = << >>
    /\ start' = Snapshot(stack, words, definitions, nesting_level)
    /\ idx' = 0
    /\ UNCHANGED <<stack, words, definitions, execution_stack, nesting_level,
                   writer, output, frames, given, lines, last, stack_file>>
    /\ IF cursor < Len(lines)
       THEN LET line == lines[cursor + 1]
                r == parse_instructions(to_lowercase(line), words)
            IN  /\ cursor' = cursor + 1
                /\ source' = line
                /\ IF r.res = "Abort"
                   THEN vec' = << >> /\ mode' = "aborted" /\ result' = "Abort"
                   ELSE vec' = r.instructions /\ mode' = "top" /\ result' = "none"
       ELSE /\ mode' = "exited"
            /\ result' = "Ok"
            /\ UNCHANGED <<cursor, source, vec>>

\* after process_data: its error is returned by run (the ? of lib.rs:67),
\* else write_stack_output writes the stack and the loop goes on
RunAfter ==
    /\ mode = "idle"
    /\ result # "none"
    /\ UNCHANGED <<stack, words, definitions, execution_stack, nesting_level,
                   writer, output, vec, idx, frames, trace, start, lines, given,
                   last, source, cursor>>
    /\ IF result = "Ok"
       THEN /\ stack_file' = Append(stack_file, stack.data)
            /\ result' = "none"
            /\ UNCHANGED mode
       ELSE /\ mode' = "exited"
            /\ UNCHANGED <<stack_file, result>>

RunNext ==
    \/ RunLine
    \/ RunAfter
    \/ ProcessData
    \/ WordLoop
    \/ BodyStep

RunSpec == RunInit /\ [][RunNext]_vars

\* C16: a line holding ." s" writes exactly s followed by one space, with
\* the characters, the letter case and the inner spacing of s unchanged;
\* a colon, a semicolon or whitespace inside s does not split the lexeme.
C16_QuotedLiteral ==
    \A s \in Literals :
        (Done /\ source = Quote(s))
        => /\ vec = <<OutputDotQuote(s)>>
           /\ result = "Ok"
           /\ output # << >>
           /\ output[Len(output)] = Written("DotQuote", 0, s \o <<" ">>)

\* run has returned
Exited == mode = "exited"

\* C17: each line is an independent unit of work: when a line fails with a
\* runtime error the later lines of the file are still processed, so run
\* returns only after it has taken every line.
C17_IndependentLines ==
    Exited => cursor = Len(lines)

(***************************************************************************)
(* Sequences of calls of the stack API: trace keeps the last calls, each   *)
(* with the stack it was made on and the balance of the successful pushes  *)
(* and drops made so far.                                                  *)
(***************************************************************************)
\* Most calls the history of a sequence keeps.
MaxCalls == 3

stack_call(st, op, v) ==
    CASE op = "push" -> push(st, v)
      [] op = "drop" -> drop(st)
      [] op = "swap" -> swap(st)
      [] op = "rot"  -> rot(st)

Balance_after(op, res) ==
    LET balance == IF trace = << >> THEN 0 ELSE trace[Len(trace)].balance
    IN  IF res # "Ok" THEN balance
        ELSE IF op = "push" THEN balance + 1
        ELSE IF op = "drop" THEN balance - 1
        ELSE balance

Latest(calls) ==
    IF Len(calls) <= MaxCalls THEN calls ELSE SubSeq(calls, 2, Len(calls))

\* one call of push, drop, swap or rot on the stack
StackCall ==
    \E op \in {"push", "drop", "swap", "rot"}, v \in Values :
        LET r == stack_call(stack, op, v)
            value == IF op = "push" THEN v ELSE r.val
        IN  /\ stack' = r.st
            /\ last' = Call(op, r, value)
            /\ trace' = Latest(Append(trace,
                          [op |-> op, res |-> r.res, val |-> value, before |-> stack,
                           balance |-> Balance_after(op, r.res)]))
            /\ UNCHANGED <<words, definitions, execution_stack, nesting_level,
                           writer, output, vec, idx, mode, result, frames, start,
                           lines, given, source, cursor, stack_file>>

CallsSpec == DeepStackInit /\ [][StackCall]_vars

\* the k-th call counted from the latest one (1 is the latest)
Ago(k) == trace[Len(trace) - k + 1]

\* the k latest calls are all op and all succeeded
Repeated(op, k) ==
    /\ Len(trace) >= k
    /\ \A j \in 1..k : Ago(j).op = op /\ Ago(j).res = "Ok"

\* C21: the size is the number of successful pushes minus the number of
\* successful drops; a successful push(v) followed by drop returns v and
\* restores the stack; swap swap is the identity on a stack of two elements
\* or more and rot rot rot on a stack of three or more, full stacks included.
C21_RoundTrips ==
    /\ trace # << >> => stack.size = Ago(1).balance /\ Len(stack.data) = stack.size
    /\ (Len(trace) >= 2 /\ Ago(2).op = "push" /\ Ago(2).res = "Ok" /\ Ago(1).op = "drop") =>
          /\ Ago(1).res = "Ok"
          /\ Ago(1).val = Ago(2).val
          /\ stack = Ago(2).before
    /\ (Len(trace) >= 2 /\ Ago(2).op = "swap" /\ Ago(1).op = "swap"
          /\ Ago(2).before.size >= 2) =>
          /\ Repeated("swap", 2)
          /\ stack = Ago(2).before
    /\ (Len(trace) >= 3 /\ \A j \in 1..3 : Ago(j).op = "rot") /\ Ago(3).before.size >= 3 =>
          /\ Repeated("rot", 3)
          /\ stack = Ago(3).before

\* three rots have been made in a row on a stack holding one element more
\* than its capacity, whose three topmost elements differ
C21_Witness ==
    /\ Repeated("rot", 3)
    /\ LET b == Ago(3).before
       IN  /\ b.size > b.capacity
           /\ Cardinality({FromTop(b.data, 1), FromTop(b.data, 2), FromTop(b.data, 3)}) = 3

(***************************************************************************)
(* The boolean and comparison instructions on their own: each is handled   *)
(* on a stack holding two operands taken at and around the limits of i16.  *)
(***************************************************************************)
Connectives == {BooleanOperation("And"), BooleanOperation("Or"), BooleanOperation("Not"),
                LogicalOperation("LessThan"), LogicalOperation("GreaterThan"),
                LogicalOperation("Equal")}

\* handle_instruction on the stack a b (b on top); the instruction and its
\* outcome are kept in last, the operands in last.before
BoolApply ==
    \E a \in Operands, b \in Operands, instruction \in Connectives :
        LET operands == push(push(Stack_new(None), a).st, b).st
        IN  \E o \in handle_instruction(operands, writer, output, instruction) :
                /\ stack' = o.st
                /\ last' = [op |-> instruction.s, res |-> o.res,
                            before |-> <<a, b>>, val |-> top(o.st).val]
                /\ UNCHANGED interp_vars

BoolSpec == CalcInit /\ [][BoolApply]_vars

\* C22: And pushes TRUE exactly when both operands are -1, Or exactly when
\* one of them is -1, Not exactly when its operand is 0, each pushes FALSE
\* otherwise, and And, Or, Not, <, > and = only ever push -1 or 0.
C22_CanonicalBooleans ==
    last # NoCall =>
        LET a == last.before[1]
            b == last.before[2]
            pushed == last.val
        IN  /\ last.res = "Ok"
            /\ pushed \in {FORTH_TRUE, FORTH_FALSE}
            /\ last.op = "And" =>
                 /\ pushed = FORTH_TRUE <=> (a = -1 /\ b = -1)
                 /\ stack.data = <<pushed>>
            /\ last.op = "Or" =>
                 /\ pushed = FORTH_TRUE <=> (a = -1 \/ b = -1)
                 /\ stack.data = <<pushed>>
            /\ last.op = "Not" =>
                 /\ pushed = FORTH_TRUE <=> b = 0
                 /\ stack.data = <<a, pushed>>
            /\ last.op \in {"LessThan", "GreaterThan", "Equal"} =>
                 stack.data = <<pushed>>

\* And has been applied to -1 and a non-zero value other than -1, and has
\* pushed FALSE
C22_Witness ==
    /\ last.op = "And"
    /\ last.before = <<-1, 2>>
    /\ stack.data = <<FORTH_FALSE>>

(***************************************************************************)
(* Scripts: a caller that gives a fixed sequence of vectors, one after the *)
(* other, to process_instructions of one Forth, with or without a writer.  *)
(***************************************************************************)
\* Most vectors of a script.
MaxScript == 3

Scripts(vectors) == UNION {[1..n -> vectors] : n \in 1..MaxScript}

ScriptInit(vectors) ==
    /\ stack = Stack_new(Some(MaxBytes))
    /\ writer \in BOOLEAN
    /\ last = NoCall
    /\ InterpreterNew
    /\ lines \in Scripts(vectors)

\* the next vector of the script is given to process_instructions
SubmitNext ==
    /\ mode = "idle"
    /\ cursor < Len(lines)
    /\ vec' = lines[cursor + 1]
    /\ cursor' = cursor + 1
    /\ idx' = 0
    /\ mode' = "top"
    /\ result' = "none"
    /\ trace' = << >>
    /\ start' = Snapshot(stack, words, definitions, nesting_level)
    /\ source' = << >>
    /\ UNCHANGED <<stack, words, definitions, execution_stack, nesting_level,
                   writer, output, frames, given, lines, last, stack_file>>

ScriptNext ==
    \/ SubmitNext
    \/ TopStep
    \/ WordLoop
    \/ BodyStep

\* the element process_instructions is about to handle is of one of kinds
AtTop(kinds) == mode = "top" /\ idx < Len(vec) /\ vec[idx + 1].t \in kinds

\* the instruction execute_instruction is about to run is of one of kinds
InBody(kinds) ==
    /\ mode = "word"
    /\ frames # << >>
    /\ LET def_index == frames[Len(frames)].def
           i == frames[Len(frames)].i
       IN  /\ def_index < Len(definitions)
           /\ i < Len(definitions[def_index + 1])
           /\ definitions[def_index + 1][i + 1].t \in kinds

(***************************************************************************)
(* Scripts of output instructions, at top level and in the body of a word. *)
(***************************************************************************)
hi == <<"h", "i">>

Outputs == {OutputDot, OutpuEmit, OutputCR, DotQuote(hi), OutputDotQuote(hi)}

OutputKinds == {"OutputDot", "OutpuEmit", "OutputCR", "DotQuote", "OutputDotQuote"}

OutputVectors ==
    {<<o>> : o \in Outputs}
    \cup {Definition(f, <<o>>) : o \in Outputs}
    \cup {<<Number(65)>>, <<Name(f)>>}

OutputInit == ScriptInit(OutputVectors)

OutputSpec == OutputInit /\ [][ScriptNext]_vars

\* C23: without a writer, the execution of Dot, Emit, CR or a quoted
\* literal, at top level or in a body, writes nothing, does not fail and
\* leaves the operand stack as it was.
C23_SilentNoOp ==
    [][(~writer /\ (AtTop(OutputKinds) \/ InBody(OutputKinds)))
       => (stack' = stack /\ output' = output /\ result' = "none")]_vars

(***************************************************************************)
(* Scripts in which instructions fail: output on an empty stack, drop on   *)
(* an empty stack, pushes beyond the capacity, a division by zero and an   *)
(* unknown word, each followed by a further instruction.                   *)
(***************************************************************************)
DotThenOne == <<OutputDot, Number(1)>>
EmitThenOne == <<OutpuEmit, Number(1)>>

FailingVectors ==
    {DotThenOne, EmitThenOne, DivZeroThen,
     <<StackWord("Drop"), Number(1)>>,
     <<Number(1), Number(1), StackWord("Dup"), Number(1)>>,
     <<Name(g), Number(1)>>,
     Definition(f, <<OutputDot, OutpuEmit, Number(1), StackWord("Rot")>>),
     <<Name(f), Number(1)>>}

FailingInit == ScriptInit(FailingVectors)

FailingSpec == FailingInit /\ [][ScriptNext]_vars

\* the error the instruction raises on the stack st: the one of the stack
\* operation it starts with that fails, or of its calculation
Raised(instruction, st, top_level) ==
    LET t == instruction.t
    IN  CASE t = "Number" -> push(st, instruction.v).res
          [] t = "StackWord" -> execute_stack_operation(st, instruction.s).res
          [] t \in {"Operator", "LogicalOperation"} ->
               IF st.size < 2 THEN "Underflow"
               ELSE IF top_level /\ instruction.s = "/" /\ FromTop(st.data, 1) = 0
               THEN "DivisionByZero"
               ELSE "Ok"
          [] t = "BooleanOperation" ->
               IF st.size < (IF instruction.s = "Not" THEN 1 ELSE 2)
               THEN "Underflow" ELSE "Ok"
          [] t = "Name" ->
               IF top_level /\ instruction.n \notin DOMAIN words
               THEN "UnknownWord" ELSE "Ok"
          [] OTHER -> "Ok"

\* the instruction about to be handled, and whether it is at top level
Current ==
    IF mode = "top" THEN vec[idx + 1]
    ELSE definitions[frames[Len(frames)].def + 1][frames[Len(frames)].i + 1]

AllKinds ==
    {"Number", "Operator", "StackWord", "Name", "BooleanOperation",
     "LogicalOperation", "DefinitionIndex", "If", "Else", "Then"} \cup OutputKinds

\* C24: Dot or Emit on an empty stack writes nothing and returns Ok, and
\* the instructions after it are executed; the Underflow of any other
\* instruction, an Overflow, a DivisionByZero and an UnknownWord end the
\* vector and are returned to the caller.
C24_OnlyOutputAbsorbs ==
    [][/\ (stack.size = 0 /\ AtTop({"OutputDot", "OutpuEmit"}))
          => (output' = output /\ stack' = stack /\ result' = "none"
              /\ mode' = "top" /\ idx' = idx + 1)
       /\ (stack.size = 0 /\ InBody({"OutputDot", "OutpuEmit"}))
          => (output' = output /\ stack' = stack /\ result' = "none"
              /\ mode' = "word" /\ frames' # << >>
              /\ frames'[Len(frames')].i = frames[Len(frames)].i + 1)
       /\ (AtTop(AllKinds) \/ InBody(AllKinds))
          => LET raised == Raised(Current, stack, mode = "top")
             IN  raised # "Ok" => (result' = raised /\ mode' = "idle")]_vars

\* with a writer, Dot has been absorbed on an empty stack at top level:
\* nothing was written and the number after it has been pushed
C24_Witness ==
    /\ Done
    /\ vec = DotThenOne
    /\ start.stack.size = 0
    /\ writer
    /\ output = << >>
    /\ result = "Ok"
    /\ stack.data = <<1>>

(***************************************************************************)
(* Scripts with If, Else and Then outside a word body.                     *)
(***************************************************************************)
ZeroIfFive == <<Number(0), If, Number(5), Then>>

IfText == <<"0", " ", "i", "f", " ", "5", " ", "t", "h", "e", "n">>

TopLevelVectors ==
    {ZeroIfFive, <<If>>, <<Else, Number(6)>>, <<Then>>,
     <<Number(-1), If, OutputCR, Else, Number(6), Then>>,
     Definition(f, <<Number(0), If, Number(5), Then>>),
     <<Name(f), If>>, DropLine}

TopLevelInit == ScriptInit(TopLevelVectors)

TopLevelSpec == TopLevelInit /\ [][ScriptNext]_vars

\* C25: the parser accepts if, else and then at top level, and there each
\* of them returns Ok, pops nothing, writes nothing, changes neither the
\* stack nor the dictionary, and the instructions after it are executed
\* whatever the stack holds: 0 if 5 then leaves 0 5.
C25_TopLevelConditional ==
    /\ parse_instructions(IfText, << >>).instructions = ZeroIfFive
    /\ [](Done /\ vec = ZeroIfFive /\ start.stack.size = 0
             => result = "Ok" /\ stack.data = <<0, 5>>)
    /\ [][AtTop({"If", "Else", "Then"})
          => (/\ stack' = stack
              /\ output' = output
              /\ words' = words
              /\ definitions' = definitions
              /\ nesting_level' = nesting_level
              /\ result' = "none"
              /\ mode' = "top"
              /\ idx' = idx + 1)]_vars

\* 0 if 5 then has been processed on an empty stack
C25_Witness ==
    /\ Done
    /\ vec = ZeroIfFive
    /\ start.stack.size = 0
    /\ stack.data = <<0, 5>>

(***************************************************************************)
(* unify_multiline_definitions on its own, applied to files made of lines  *)
(* that open a definition, close one, do both, or do neither.              *)
(***************************************************************************)
\* Most lines of a file given to unify_multiline_definitions.
MaxLines == 4

Opening == <<":", " ", "f">>
Closing == <<"2", " ", ";">>
Whole == <<":", " ", "g", " ", "3", " ", ";">>
Plain == <<"1">>

UnifyLines == {Opening, Closing, Whole, Plain, DropText}

UnifyFiles == UNION {[1..n -> UnifyLines] : n \in 1..MaxLines}

\* unify_multiline_definitions(file); the file is kept in last.before and
\* the unified lines in last.val
UnifyApply ==
    \E file \in UnifyFiles :
        /\ last' = [op |-> "unify", res |-> "Ok", before |-> file,
                    val |-> unify_multiline_definitions(file)]
        /\ UNCHANGED <<stack, interp_vars>>

UnifySpec == CalcInit /\ [][UnifyApply]_vars

\* the line only opens a definition
Opens(line) == starts_with(line, <<":">>) /\ ~ends_with(line, ";")

\* C26: unification keeps the text of every line, in order: the unified
\* lines joined by single spaces are the lines of the file joined by single
\* spaces; a file in which no line opens a definition without closing it
\* is left as it is; a definition opened on one line and closed on the
\* next becomes the one line made of both, joined by a space.
C26_UnifyKeepsLines ==
    last.op = "unify" =>
        LET file == last.before
            unified == last.val
        IN  /\ Spaced(unified) = Spaced(file)
            /\ (\A k \in 1..Len(file) : ~Opens(file[k])) => unified = file
            /\ file = <<Opening, Closing>> => unified = <<Spaced(file)>>

(***************************************************************************)
(* Scripts whose vectors hold instructions before a definition, and        *)
(* instructions and a second definition after it.                          *)
(***************************************************************************)
PrefixedChain ==
    <<Number(5)>> \o Definition(f, <<Number(1)>>)
    \o <<Number(6)>> \o Definition(g, <<Number(2)>>)

PairThenDef == <<Number(7), Number(7)>> \o Definition(g, <<Number(2)>>) \o <<Name(g)>>

PrefixedVectors == {PrefixedChain, PairThenDef, <<Name(f)>>, <<Name(g)>>, DropLine}

PrefixedInit == ScriptInit(PrefixedVectors)

PrefixedSpec == PrefixedInit /\ [][ScriptNext]_vars

\* the position (from 1) of the first StartDefinition of v, 0 without one
FirstStart(v) == Least({k \in 1..Len(v) : v[k].t = "StartDefinition"})

\* C27: the numbers placed before the first StartDefinition of a vector are
\* pushed in order, then that one definition is stored and the vector is
\* done: the loop stays at the StartDefinition, nothing located after it is
\* executed and no later definition of the vector is stored; when a push
\* before it fails, nothing is defined.
C27_StopsAtDefinition ==
    (Done /\ FirstStart(vec) > 0 /\ NumbersBefore(vec, FirstStart(vec) - 1)) =>
        LET k == FirstStart(vec)
            pushed == [j \in 1..(k - 1) |-> vec[j].v]
            name == vec[k + 1].n
            end == Least({j \in (k + 2)..Len(vec) : vec[j].t = "EndDefinition"})
        IN  IF result = "Ok"
            THEN /\ stack.data = start.stack.data \o pushed
                 /\ idx = k - 1
                 /\ definitions = Append(start.definitions, SubSeq(vec, k + 2, end - 1))
                 /\ DOMAIN words = DOMAIN start.words \cup {name}
                 /\ words[name] = Len(start.definitions)
                 /\ \A n \in DOMAIN start.words \ {name} : words[n] = start.words[n]
            ELSE /\ result = "Overflow"
                 /\ IsPrefix(stack.data, start.stack.data \o pushed)
                 /\ words = start.words
                 /\ definitions = start.definitions

\* 5 : f 1 ; 6 : g 2 ; has been processed on a fresh interpreter: 5 is on
\* the stack, f is defined, 6 has not been pushed and g is not defined
C27_Witness ==
    /\ Done
    /\ vec = PrefixedChain
    /\ start.stack.size = 0
    /\ start.words = << >>
    /\ result = "Ok"
    /\ stack.data = <<5>>
    /\ DOMAIN words = {f}
    /\ definitions = <<<<Number(1)>>>>

(***************************************************************************)
(* The same instructions run at top level and as the body of a word.       *)
(***************************************************************************)
\* the loop of process_instructions over a vector that holds neither a
\* definition nor a name: the outcomes of handling its elements in order,
\* up to the first error
RECURSIVE process_instructions(_, _, _, _)
process_instructions(st, w, out, data) ==
    IF data = << >> THEN {Outcome("Ok", st, out)}
    ELSE UNION { IF o.res = "Ok"
                 THEN process_instructions(o.st, w, o.out, Tail(data))
                 ELSE {o}
                 : o \in handle_instruction(st, w, out, Head(data)) }

\* Longest sequence of instructions compared.
MaxBody == 2

BodyAtoms ==
    {Number(3), Operator("+"), Operator("-"), Operator("/"), StackWord("Over"),
     BooleanOperation("Not"), LogicalOperation("LessThan"),
     OutputDot, OutpuEmit, OutputCR}

PlainBodies == UNION {[1..n -> BodyAtoms] : n \in 1..MaxBody}

Pushes == {<<Number(0)>>, <<Number(7), Number(2)>>, <<Number(0), Number(7)>>}

\* the operands are pushed, f is defined with the sequence as its body, and
\* then either f is invoked or the sequence is processed as it is
EquivScripts ==
    {<<pushes, Definition(f, body), <<Name(f)>>>> :
        pushes \in Pushes, body \in PlainBodies}
    \cup {<<pushes, Definition(f, body), body>> :
            pushes \in Pushes, body \in PlainBodies}

EquivInit ==
    /\ stack = Stack_new(Some(MaxBytes))
    /\ writer \in BOOLEAN
    /\ last = NoCall
    /\ InterpreterNew
    /\ lines \in EquivScripts

EquivSpec == EquivInit /\ [][ScriptNext]_vars

\* C28: a sequence of Number, Operator, StackWord, BooleanOperation,
\* LogicalOperation and Output instructions gives the same final stack, the
\* same output and the same error when it is the body of a word that is
\* invoked as when it is processed at top level, for every starting stack
\* and with or without a writer; a b - pushes a - b in both places.
C28_BodyEquivalence ==
    (Done /\ cursor = 3) =>
        LET body == lines[2]
            sequence == SubSeq(body, 3, Len(body) - 1)
        IN  Outcome(result, stack, output)
                \in process_instructions(start.stack, writer, << >>, sequence)

(***************************************************************************)
(* The vector of compiled bodies over the sessions that define and         *)
(* redefine words.                                                         *)
(***************************************************************************)
\* C29: the vector of compiled bodies never gets shorter and a body, once
\* stored, is never modified; every name of the dictionary maps to an index
\* below the length of the vector, and every DefinitionIndex(j) in the body
\* at index k has j < k.
C29_AppendOnly ==
    /\ [][/\ Len(definitions') >= Len(definitions)
          /\ \A k \in 1..Len(definitions) : definitions'[k] = definitions[k]]_vars
    /\ [](/\ \A n \in DOMAIN words : 0 <= words[n] /\ words[n] < Len(definitions)
          /\ \A k \in 0..(Len(definitions) - 1) :
                \A p \in 1..Len(definitions[k + 1]) :
                    definitions[k + 1][p].t = "DefinitionIndex"
                    => (0 <= definitions[k + 1][p].v /\ definitions[k + 1][p].v < k))

\* foo has been defined, bar compiled with a reference to it, and foo
\* defined again: bar still points to the first body
C29_Witness ==
    /\ Len(definitions) = 3
    /\ DOMAIN words = {foo, bar}
    /\ words[bar] = 1
    /\ words[foo] = 2
    /\ definitions[2] = <<DefinitionIndex(0)>>
    /\ definitions[1] # definitions[3]

(***************************************************************************)
(* Sessions whose word holds two conditionals, one after the other.        *)
(***************************************************************************)
SiblingBodies ==
    {Conditional(A, << >>, FALSE) \o Conditional(B, C, TRUE) :
        A \in Pieces, B \in Pieces, C \in Pieces}
    \cup {Conditional(A, B, TRUE) \o Conditional(<< >>, C, TRUE) :
            A \in Pieces, B \in Pieces, C \in Pieces}

SiblingInit == SessionInit(SiblingBodies)

SiblingSpec == SiblingInit /\ [][Next]_vars

\* C30: when a body reaches an If at position i, the then_index found is
\* the position of the Then closing that If, and the else_index, when there
\* is a Then and the else-branch is taken, is the position of the Else of
\* that If, strictly between i and then_index: the else-branch entered is
\* never the one of a later conditional.
C30_MatchingMarkers ==
    [][InBody({"If"}) =>
         LET def_index == frames[Len(frames)].def
             i == frames[Len(frames)].i
             body == definitions[def_index + 1]
             then_index == find_index_instruction(definitions, def_index, i + 1, "Then")
             else_index == find_index_instruction(definitions, def_index, i + 1, "Else")
             taken == /\ stack.size > 0
                      /\ FromTop(stack.data, 1) = 0
                      /\ then_index # None
         IN  /\ then_index = IF MatchThen(body, i + 1) = 0 THEN None
                             ELSE Some(MatchThen(body, i + 1) - 1)
             /\ (taken /\ else_index # None) =>
                  /\ i < else_index[1]
                  /\ else_index[1] < then_index[1]
                  /\ else_index[1] = MatchElse(body, i + 1) - 1
             /\ (taken /\ Len(frames') > Len(frames)) =>
                  /\ MatchElse(body, i + 1) # 0
                  /\ frames'[Len(frames')].i = MatchElse(body, i + 1)]_vars

(***************************************************************************)
(* References to names that are not in the dictionary when a body is       *)
(* compiled, over the sessions that define and redefine words.             *)
(***************************************************************************)
\* the body of a definition vector as written: what lies between the name
\* and the first EndDefinition
Written_body(v) ==
    SubSeq(v, 3, Least({j \in 3..Len(v) : v[j].t = "EndDefinition"}) - 1)

\* the body as it must be stored: a reference to a word of ws becomes its
\* index, a reference to a name absent from ws leaves nothing
Resolved(body, ws) ==
    LET Present(e) == e.t # "Name" \/ e.n \in DOMAIN ws
        kept == SelectSeq(body, Present)
    IN  [k \in 1..Len(kept) |->
            IF kept[k].t = "Name" THEN DefinitionIndex(ws[kept[k].n]) ELSE kept[k]]

\* C31: a definition whose body refers to a name absent from the dictionary
\* (also the name being defined, the first time) succeeds and stores no
\* element for that reference; invoking the word later runs nothing for it,
\* whether or not the name has been defined in between, and does not fail
\* with UnknownWord.
C31_AbsentReference ==
    /\ [][(AtTop({"StartDefinition"}) /\ idx = 0 /\ vec \in {DefBarFoo, DefFooFoo})
          => /\ result' = "Ok"
             /\ definitions' = Append(definitions, Resolved(Written_body(vec), words))]_vars
    /\ [](\A k \in 1..Len(definitions) :
             \A p \in 1..Len(definitions[k]) : definitions[k][p].t # "Name")
    /\ []((/\ vec = RunBarFoo
           /\ bar \in DOMAIN words
           /\ definitions[words[bar] + 1] = << >>
           /\ mode = "top"
           /\ idx = 1)
          => (result # "UnknownWord" /\ trace = << >> /\ stack = start.stack))

\* bar was defined while foo was absent, foo was defined afterwards, and
\* bar has been invoked: nothing has run
C31_Witness ==
    /\ vec = RunBarFoo
    /\ mode = "top"
    /\ idx = 1
    /\ bar \in DOMAIN words
    /\ foo \in DOMAIN words
    /\ words[bar] < words[foo]
    /\ definitions[words[bar] + 1] = << >>
    /\ definitions[words[foo] + 1] # << >>
    /\ trace = << >>
    /\ stack = start.stack


(***************************************************************************)
(* A definition whose text holds a second colon before its semicolon.      *)
(***************************************************************************)
a == <<"a">>

b == <<"b">>

\* the line : a 1 : b 2 ;
NestedColonLine ==
    Spaced(<<<<":">>, a, <<"1">>, <<":">>, b, <<"2">>, <<";">>>>)

ColonLines == {NestedColonLine, DefLine(b, <<"2">>), a, b, <<":">>, DropText}

ColonInit == TextInit(ColonLines)

ColonSpec == ColonInit /\ [][TextNext]_vars

\* C32: a definition whose body contains a nested colon is ill-formed:
\* once the line : a 1 : b 2 ; has been parsed and processed the result is
\* InvalidWord and the name map and the bodies are the ones before it.
C32_NestedColonRejected ==
    (Done /\ source = NestedColonLine)
        => /\ result = "InvalidWord"
           /\ words = start.words
           /\ definitions = start.definitions


\* the exact integer result of n1 operation n2 for + - *
Exact(n1, n2, operation) ==
    CASE operation = "+" -> n1 + n2
      [] operation = "-" -> n1 - n2
      [] operation = "*" -> n1 * n2

\* C33: the overflow policy of + - * is consistent and total: for all i16
\* a and b, calculate(a, b, op) with op among + - * never aborts the
\* interpreter, and a value it returns is the exact result reduced modulo
\* 2^16 into the range of i16.
C33_OverflowPolicy ==
    (last # NoCall /\ last.op \in {"+", "-", "*"}) =>
        /\ last.res # "Abort"
        /\ last.res = "Ok" =>
             last.val = Wrap16(Exact(last.before[1], last.before[2], last.op))


\* C34: the control-flow nesting counter is balanced: whenever no word
\* invocation is in progress, initially and after every vector has been
\* processed with Ok or with an error, nesting_level is 0.
C34_NestingBalanced ==
    mode = "idle" => nesting_level = 0


(***************************************************************************)
(* execute_instruction as a function: the outcomes [res, st, out,          *)
(* nesting_level] of the loop started at instruction_index of the body     *)
(* def_index, the recursive calls included.  (A stored body holds no name, *)
(* so the execution stack is not involved.)                                *)
(***************************************************************************)
Ended(res, st, out, level) ==
    [res |-> res, st |-> st, out |-> out, nesting_level |-> level]

RECURSIVE execute_instruction(_, _, _, _, _, _, _)
execute_instruction(ds, def_index, instruction_index, st, w, out, level) ==
    IF def_index >= Len(ds) \/ instruction_index >= Len(ds[def_index + 1])
    THEN {Ended("Ok", st, out, level)}
    ELSE LET i == instruction_index
             instruction == ds[def_index + 1][i + 1]
             \* the rest of the loop after a recursive call that gave c
             After(c, next) ==
                 IF c.res # "Ok" THEN {c}
                 ELSE execute_instruction(ds, def_index, next, c.st, w, c.out,
                                          c.nesting_level)
         IN  CASE instruction.t = "DefinitionIndex" ->
                    UNION {After(c, i + 1) :
                             c \in execute_instruction(ds, instruction.v, 0, st, w,
                                                       out, level)}
               [] instruction.t = "If" ->
                    LET r == execute_if(ds, def_index, i, st, level)
                    IN  IF r.res # "Ok"
                        THEN {Ended(r.res, r.st, out, r.nesting_level)}
                        ELSE IF r.child = None
                        THEN execute_instruction(ds, def_index, r.next, r.st, w, out,
                                                 r.nesting_level)
                        ELSE UNION {After(c, r.next) :
                                      c \in execute_instruction(ds, def_index,
                                                                r.child[1], r.st, w,
                                                                out, r.nesting_level)}
               [] instruction.t = "Else" ->
                    LET r == execute_else(level)
                    IN  IF r.break THEN {Ended("Ok", st, out, r.nesting_level)}
                        ELSE execute_instruction(ds, def_index, i + 1, st, w, out,
                                                 r.nesting_level)
               [] instruction.t = "Then" ->
                    LET r == execute_then(level)
                    IN  IF r.break THEN {Ended("Ok", st, out, r.nesting_level)}
                        ELSE execute_instruction(ds, def_index, i + 1, st, w, out,
                                                 r.nesting_level)
               [] OTHER ->
                    UNION {After(Ended(o.res, o.st, o.out, level), i + 1) :
                             o \in execute_data(st, w, out, instruction)}

\* what an interpreter that has invoked nothing before gives for the word
\* name over the dictionary ws, the bodies ds and the stack st
FreshInvocation(ws, ds, st, w, out, name) ==
    {[res |-> c.res, st |-> c.st, out |-> c.out] :
        c \in execute_instruction(ds, ws[name], 0, st, w, out, 0)}

\* C35: invoking a word is history-independent: whatever was invoked
\* before, the final stack, the output and the result of invoking f are
\* those an interpreter with the same dictionary and the same stack gives
\* when it has invoked nothing before.
C35_HistoryIndependent ==
    (Done /\ vec = <<Name(f)>> /\ f \in DOMAIN start.words)
        => [res |-> result, st |-> stack, out |-> output]
              \in FreshInvocation(start.words, start.definitions, start.stack,
                                  writer, output, f)

\* (the same statement for the interpreters whose counter is 0 when the
\* word is invoked)
FreshAgrees ==
    start.nesting_level = 0 => C35_HistoryIndependent


(***************************************************************************)
(* Sessions that define foo and then give definitions of foo that fail:    *)
(* no EndDefinition, a StartDefinition in the body, a numeral as name.     *)
(***************************************************************************)
FooUnended == <<StartDefinition, Name(foo), Number(6)>>

FooNested == Definition(foo, <<Number(6), StartDefinition>>)

NumeralNamed == Definition(<<"1">>, <<Number(6)>>)

FailingDefinitions == {FooUnended, FooNested, NumeralNamed}

AtomicLines == {DefFoo5, DefFoo6, <<Name(foo)>>, DropLine} \cup FailingDefinitions

AtomicInit ==
    /\ stack = Stack_new(Some(MaxBytes))
    /\ writer = FALSE
    /\ last = NoCall
    /\ InterpreterNew
    /\ lines = AtomicLines

AtomicSpec == AtomicInit /\ [][Next]_vars

\* C36: a failed definition is atomic: when a definition fails with
\* InvalidWord (illegal name, missing EndDefinition, or an illegal
\* instruction in the body) the name map and the vector of bodies are
\* exactly as before, and foo, defined before, stays invocable and still
\* pushes the number of its latest accepted definition.
C36_FailedDefinitionAtomic ==
    /\ (Done /\ vec \in FailingDefinitions)
          => /\ result = "InvalidWord"
             /\ words = start.words
             /\ definitions = start.definitions
    /\ (Done /\ vec = <<Name(foo)>> /\ foo \in DOMAIN start.words)
          => /\ result # "UnknownWord"
             /\ result = "Ok" =>
                  stack.data = start.stack.data \o <<given[Len(given)][3].v>>

\* a definition of foo with a StartDefinition in its body has failed where
\* foo was defined with the body 5
C36_Witness ==
    /\ Done
    /\ vec = FooNested
    /\ result = "InvalidWord"
    /\ foo \in DOMAIN words
    /\ definitions[words[foo] + 1] = <<Number(5)>>


(***************************************************************************)
(* Lines that hold numerals inside and outside the range of i16, at top    *)
(* level and in the body of a definition.                                  *)
(***************************************************************************)
Forty == <<"4", "0", "0", "0", "0">>

NumeralLines ==
    {Forty, <<"-">> \o Forty, <<"7">>, Spaced(<<<<"1">>, Forty>>),
     <<"3", "2", "7", "6", "7">>, <<"3", "2", "7", "6", "8">>,
     <<"-", "3", "2", "7", "6", "8">>, DefLine(g, Spaced(<<Forty, <<"7">>>>)), g,
     <<"1", "\n", "7">>, DropText}

NumeralInit == TextInit(NumeralLines)

NumeralSpec == NumeralInit /\ [][TextNext]_vars

\* C37: the parser emits exactly one instruction per lexeme, in lexeme
\* order: the vector parsed from a line is as long as the line has lexemes,
\* and the instruction of a lexeme made of an optional - followed by digits
\* is a Number, also when the numeral is outside the range of i16.
C37_OnePerLexeme ==
    Parsed =>
        LET tokens == tokenize(source)
        IN  /\ Len(vec) = Len(tokens)
            /\ \A k \in 1..Len(tokens) :
                  (k <= Len(vec) /\ is_number(tokens[k])) => vec[k].t = "Number"


(***************************************************************************)
(* Lines that hold string literals: closed, unterminated, and the bare     *)
(* lexeme of a dot and a double quote.                                     *)
(***************************************************************************)
BareQuote == <<".", "\"">>

Closed == BareQuote \o <<" ", "h", "i", "\"">>

Unterminated == BareQuote \o <<" ", "h", "i">>

QuoteLines ==
    {BareQuote, Unterminated, Closed, Spaced(<<<<"7">>, Unterminated>>),
     Spaced(<<<<"7">>, BareQuote>>), <<"7">>, DefLine(g, Closed), g, DropText}

QuoteInit == TextInit(QuoteLines)

QuoteSpec == QuoteInit /\ [][TextNext]_vars

\* the line holds the opening of a string literal: dot, quote, space
OpensLiteral(line) ==
    \E i \in 1..Len(line) : starts_with(SubSeq(line, i, Len(line)), BareQuote \o <<" ">>)

\* C38: tokenizing and parsing are total: parse_instructions returns a
\* vector for every line and never aborts, also for a line that holds the
\* lexeme of a dot and a quote with no space or closing quote after it, and
\* the text of an unterminated literal is not lost: the vector parsed from
\* a line that opens a literal holds an instruction for it.
C38_ParserTotal ==
    /\ source # << >> => parse_instructions(source, start.words).res = "Ok"
    /\ (Parsed /\ OpensLiteral(source))
          => \E k \in 1..Len(vec) : vec[k].t = "OutputDotQuote"

\* the instructions parse_token gives for the token alone in the state,
\* against the dictionary of the interpreter
Classified(token, state) == parse_token(token, << >>, state, words).instructions

\* C39: the classification of a lexeme does not depend on the parser state:
\* against every dictionary, every lexeme other than the colon and the
\* semicolon gives in OutsideDefinition the instruction it gives in
\* InsideDefinition, also a reserved name that the user has redefined.
C39_StateIndependent ==
    \A token \in Reserved \cup {g, <<"0">>} :
        Classified(token, "OutsideDefinition") = Classified(token, "InsideDefinition")

=============================================================================
